---------------------------- MODULE Spec2Model ----------------------------
(***************************************************************************)
(* Crawl orchestration engine of gencrawl: the job state machine           *)
(* (backend/models/crawl_state.py), the crawl manager with its cooperative *)
(* pause / cancel control (backend/crawlers/manager.py) and the checkpoint *)
(* manager (backend/utils/checkpoint.py).                                  *)
(*                                                                         *)
(* One job is modelled: jobs share no mutable state.  The executing task   *)
(* is an asyncio coroutine; it is modelled as a program counter into Code, *)
(* the instruction list of execute_crawl and its three phases.  One step   *)
(* of the task runs from one suspension point (an await that yields to the *)
(* event loop) to the next.  The awaits that yield are the publishes to    *)
(* the event bus (websocket sends), discover_documents (network I/O) and   *)
(* the wait on a cleared pause gate.  job_store.save contains no await, so *)
(* a save runs together with the code around it.                           *)
(***************************************************************************)
EXTENDS Integers, Sequences, FiniteSets, TLC

(***************************************************************************)
(* Bounds of the model                                                     *)
(***************************************************************************)
MaxPauses == 2
MaxDiscovered == 2
MaxChecked == 3
MaxHistory == 4
MaxClock == 3
MaxCheckpoints == 3

\* iterations created
MaxIterations == 3

\* publish calls
MaxPublishes == 2

\* the largest limits.max_documents of a discover_documents call
MaxDocuments == 2

\* the Crawl-delay line of the robots.txt of the sites
RobotsCrawlDelay == 2

\* seconds short of the cache TTL that may pass between two calls
TtlMargin == 3

(***************************************************************************)
(* Program constants                                                       *)
(***************************************************************************)
SyntheticUrlTotal == 100
SyntheticDocumentTotal == 50
ProgressEmitEvery == 10
AutoSaveEvery == 25

None == -1

\* EventHistory(max_events=1000) and the deque(maxlen=100) of each event type
MaxEvents == 1000

MaxEventsByType == 100

\* discovery.py: CACHE_TTL_SECONDS = 7 * 24 * 60 * 60, max_sitemaps, and
\* max_page_scans in polite mode
CACHE_TTL_SECONDS == 604800

MaxSitemaps == 6

MaxPageScans == 10

(***************************************************************************)
(* crawl_state.py: states, substates and the two tables                    *)
(***************************************************************************)
CrawlState ==
  {"queued", "initializing", "crawling", "extracting", "processing",
   "completed", "failed", "paused", "cancelled"}

CrawlSubstate ==
  {"discovering_urls", "downloading_pages", "downloading_documents",
   "pdf_extraction", "ocr", "table_detection",
   "metadata_extraction", "quality_scoring", "deduplication", "nemo_curation"}

NoSubstate == "None"

VALID_TRANSITIONS_terminal_leak ==
  [s \in CrawlState |->
     CASE s = "queued" -> {"initializing", "cancelled"}
       [] s = "initializing" -> {"crawling", "failed", "cancelled"}
       [] s = "crawling" -> {"extracting", "paused", "failed", "cancelled"}
       [] s = "extracting" -> {"processing", "paused", "failed", "cancelled"}
       [] s = "processing" -> {"completed", "paused", "failed", "cancelled"}
       [] s = "paused" -> {"crawling", "extracting", "processing", "cancelled"}
       [] s = "cancelled" -> {"failed"}
       [] OTHER -> {}]

VALID_TRANSITIONS ==
  [s \in CrawlState |->
     CASE s = "queued" -> {"initializing", "cancelled"}
       [] s = "initializing" -> {"crawling", "failed", "cancelled"}
       [] s = "crawling" -> {"extracting", "paused", "failed", "cancelled"}
       [] s = "extracting" -> {"processing", "paused", "failed", "cancelled"}
       [] s = "processing" -> {"completed", "paused", "failed", "cancelled"}
       [] s = "paused" -> {"crawling", "extracting", "processing", "cancelled"}
       [] OTHER -> {}]

STATE_SUBSTATES_missing_last ==
  [s \in {"crawling", "extracting", "processing"} |->
     CASE s = "crawling" ->
            <<"discovering_urls", "downloading_pages", "downloading_documents">>
       [] s = "extracting" -> <<"pdf_extraction", "ocr", "table_detection">>
       [] s = "processing" ->
            <<"metadata_extraction", "quality_scoring", "deduplication">>]

STATE_SUBSTATES ==
  [s \in {"crawling", "extracting", "processing"} |->
     CASE s = "crawling" ->
            <<"discovering_urls", "downloading_pages", "downloading_documents">>
       [] s = "extracting" -> <<"pdf_extraction", "ocr", "table_detection">>
       [] s = "processing" ->
            <<"metadata_extraction", "quality_scoring", "deduplication",
              "nemo_curation">>]

\* STATE_SUBSTATES.get(state, [])
get_next_substates(state) ==
  IF state \in DOMAIN STATE_SUBSTATES THEN STATE_SUBSTATES[state] ELSE <<>>

Range(seq) == {seq[i] : i \in DOMAIN seq}

CrawlProgress == [total |-> 0, completed |-> 0, failed |-> 0]

\* CrawlStateData(crawl_id=...) as create_crawl builds it; metrics, config
\* and crawl_id carry no control information and are left out.
CrawlStateData(now) ==
  [current_state |-> "queued",
   current_substate |-> NoSubstate,
   created_at |-> now,
   started_at |-> None,
   completed_at |-> None,
   paused_at |-> None,
   progress |-> [urls |-> CrawlProgress, documents |-> CrawlProgress,
                 extractions |-> CrawlProgress, processing |-> CrawlProgress],
   state_history |-> <<>>,
   error_message |-> "None",
   error_count |-> 0]

can_transition_unchecked(state_data, to_state) == TRUE

can_transition(state_data, to_state) ==
  to_state \in VALID_TRANSITIONS[state_data.current_state]

StateTransition_from_queued(from_state, to_state, now, duration) ==
  [from_state |-> "queued", to_state |-> to_state, timestamp |-> now,
   duration_seconds |-> duration]

StateTransition(from_state, to_state, now, duration) ==
  [from_state |-> from_state, to_state |-> to_state, timestamp |-> now,
   duration_seconds |-> duration]

TransitionApplied_first_since_creation(state_data, to_state, now) ==
  LET duration ==
        IF Len(state_data.state_history) > 0
        THEN now - state_data.state_history[Len(state_data.state_history)].timestamp
        ELSE now - state_data.created_at
      appended ==
        Append(state_data.state_history,
               StateTransition(state_data.current_state, to_state, now, duration))
      moved == [state_data EXCEPT !.state_history = appended,
                                  !.current_state = to_state]
  IN  IF to_state = "initializing" /\ state_data.started_at = None
      THEN [moved EXCEPT !.started_at = now]
      ELSE IF to_state \in {"completed", "failed", "cancelled"}
      THEN [moved EXCEPT !.completed_at = now]
      ELSE IF to_state = "paused"
      THEN [moved EXCEPT !.paused_at = now]
      ELSE moved

TransitionApplied(state_data, to_state, now) ==
  \* the body of transition() after the validity check
  LET duration ==
        IF Len(state_data.state_history) > 0
        THEN now - state_data.state_history[Len(state_data.state_history)].timestamp
        ELSE None
      appended ==
        Append(state_data.state_history,
               StateTransition(state_data.current_state, to_state, now, duration))
      moved == [state_data EXCEPT !.state_history = appended,
                                  !.current_state = to_state]
  IN  IF to_state = "initializing" /\ state_data.started_at = None
      THEN [moved EXCEPT !.started_at = now]
      ELSE IF to_state \in {"completed", "failed", "cancelled"}
      THEN [moved EXCEPT !.completed_at = now]
      ELSE IF to_state = "paused"
      THEN [moved EXCEPT !.paused_at = now]
      ELSE moved

transition_records_before_check(state_data, to_state, now) ==
  IF ~can_transition(state_data, to_state)
  THEN [raised |-> TRUE,
        state_data |->
          [state_data EXCEPT !.state_history =
             Append(@, StateTransition(state_data.current_state, to_state,
                                       now, None))]]
  ELSE [raised |-> FALSE,
        state_data |-> TransitionApplied(state_data, to_state, now)]

transition(state_data, to_state, now) ==
  \* raised = ValueError, state_data = the object after the call
  IF ~can_transition(state_data, to_state)
  THEN [raised |-> TRUE, state_data |-> state_data]
  ELSE [raised |-> FALSE,
        state_data |-> TransitionApplied(state_data, to_state, now)]

set_substate_assigns_before_check(state_data, substate) ==
  [raised |-> substate \notin Range(get_next_substates(state_data.current_state)),
   state_data |-> [state_data EXCEPT !.current_substate = substate]]

set_substate(state_data, substate) ==
  IF substate \notin Range(get_next_substates(state_data.current_state))
  THEN [raised |-> TRUE, state_data |-> state_data]
  ELSE [raised |-> FALSE,
        state_data |-> [state_data EXCEPT !.current_substate = substate]]

is_terminal_state(state_data) ==
  state_data.current_state \in {"completed", "failed", "cancelled"}

can_pause_while_paused(state_data) ==
  state_data.current_state \in {"crawling", "extracting", "processing", "paused"}

can_pause(state_data) ==
  state_data.current_state \in {"crawling", "extracting", "processing"}

can_resume(state_data) == state_data.current_state = "paused"


(***************************************************************************)
(* State                                                                   *)
(***************************************************************************)
VARIABLES
  job,                 \* "absent" | "present" (in manager.jobs) | "deleted"
  state_data,          \* the job's CrawlStateData object
  pause_flag,          \* pause_flags[crawl_id].is_set()
  cancel_flag,         \* cancel_flags[crawl_id]
  job_store,           \* the durable record of the job, NoRecord if none
  create_save_pending, \* the save task scheduled by create_crawl has not run
  task,                \* the executing task: "none" | "ready" | "waiting" |
                       \*   "woken" | "done" | "raised" | "cancelled"
  pc,                  \* index in Code of the task's next instruction
  loop_i,              \* i of the page loop of _crawl_phase
  discovered,          \* len(discovered_documents) of _crawl_phase
  clock,               \* datetime.utcnow()
  inflight,            \* pause / resume / cancel calls suspended in their publish
  checkpoints,         \* CheckpointManager.checkpoints[crawl_id]
  checkpoint_files,    \* checkpoint files on disk: id -> recorded state
  last_call,           \* the last operation that acted and its result
  pause_from,          \* main state before the last accepted pause, while no
                       \*   resume or cancel has been called since
  exc_in_phase,        \* an Exception was raised inside one of the three phases
  npauses,             \* number of accepted pause calls
  iterations,          \* IterationManager.iterations: iteration id -> metadata
  fingerprints,        \* IterationManager.fingerprints: id -> url -> fingerprint
  iteration_files,     \* <iteration_id>_metadata.json files of the storage dir
  fingerprint_files,   \* fingerprints.json files of the output directories
  histories,           \* EventBus.histories: crawl id -> EventHistory
  subscribers,         \* EventBus.subscribers: crawl id -> list of callbacks
  global_subscribers,  \* EventBus.global_subscribers
  websockets,          \* EventBus.websockets: crawl id -> set of connections
  publishing,          \* the frame of each task's publish call
  running,             \* the task whose publish call is executing, or "none"
  published,           \* the events published since the last cleanup, in order
  next_event_id,       \* serial number of the next event
  site,                \* the web as discovery sees it: target, robots, pages
  time,                \* time.time() and time.monotonic(), in seconds
  url_cache_file,      \* data/cache/url_status.json: url -> entry
  sent,                \* per host: requests received and time of the last
  discovering,         \* the frame of each discover_documents call
  results              \* the call of each job as it was when it returned

vars ==
  <<job, state_data, pause_flag, cancel_flag, job_store, create_save_pending,
    task, pc, loop_i, discovered, clock, inflight, checkpoints,
    checkpoint_files, last_call, pause_from, exc_in_phase, npauses,
    iterations, fingerprints, iteration_files, fingerprint_files,
    histories, subscribers, global_subscribers, websockets, publishing,
    running, published, next_event_id, site, time, url_cache_file, sent,
    discovering, results>>

discoveryVars ==
  <<site, time, url_cache_file, sent, discovering, results>>

eventVars ==
  <<histories, subscribers, global_subscribers, websockets, publishing,
    running, published, next_event_id>>

iterationVars ==
  <<iterations, fingerprints, iteration_files, fingerprint_files>>

\* the state of the utilities that the crawl manager's operations leave alone
utilityVars == <<iterationVars, eventVars, discoveryVars>>

managerVars ==
  <<job, pause_flag, cancel_flag, job_store, create_save_pending, task, pc,
    loop_i, discovered, inflight, pause_from, exc_in_phase,
    npauses>>

checkpointVars == <<checkpoints, checkpoint_files>>

NoRecord == [current_state |-> "None"]

ApiOps == {"pause", "resume", "cancel"}

\* number of pause / resume / cancel calls suspended in their publish
InFlight == inflight["pause"] + inflight["resume"] + inflight["cancel"]

Call(op, arg, ret) == [op |-> op, arg |-> arg, ret |-> ret]

\* dict[key] = value
Put(dict, key, value) ==
  [k \in DOMAIN dict \cup {key} |-> IF k = key THEN value ELSE dict[k]]

\* job_data of _save_job_to_storage (paused_at is not part of it)
SerializeJob(sd) ==
  [current_state |-> sd.current_state,
   current_substate |-> sd.current_substate,
   created_at |-> sd.created_at,
   started_at |-> sd.started_at,
   completed_at |-> sd.completed_at,
   error_message |-> sd.error_message,
   error_count |-> sd.error_count,
   progress |-> sd.progress,
   state_history |-> sd.state_history]

\* _save_job_to_storage: nothing is written for a job that is not in jobs
_save_job_to_storage(store, sd) ==
  IF job = "present" THEN SerializeJob(sd) ELSE store

(***************************************************************************)
(* Events and their history (events/event_bus.py)                          *)
(***************************************************************************)
CrawlId == "crawl"

\* the event types the publishers of the model use
EventTypes == {"state_change", "progress_update"}

\* CrawlEvent: event_id is the uuid4 string, modelled by a serial number;
\* timestamp, data and metadata are carried along unread by the bus
CrawlEvent(event_id, event_type) ==
  [event_id |-> event_id, event_type |-> event_type]

NoEvent == CrawlEvent(0, "None")

\* deque(maxlen=maxlen).append(x)
DequeAppend(deque, maxlen, x) ==
  IF Len(deque) < maxlen THEN Append(deque, x) ELSE Append(Tail(deque), x)

\* EventHistory()
EventHistory == [events |-> <<>>, events_by_type |-> <<>>]

EventHistory_add_unbounded_by_type(h, event) ==
  [events |-> DequeAppend(h.events, MaxEvents, event),
   events_by_type |->
     Put(h.events_by_type, event.event_type,
         Append(IF event.event_type \in DOMAIN h.events_by_type
                  THEN h.events_by_type[event.event_type]
                  ELSE <<>>,
                event))]
EventHistory_add(h, event) ==
  [events |-> DequeAppend(h.events, MaxEvents, event),
   events_by_type |->
     Put(h.events_by_type, event.event_type,
         DequeAppend(IF event.event_type \in DOMAIN h.events_by_type
                       THEN h.events_by_type[event.event_type]
                       ELSE <<>>,
                     MaxEventsByType, event))]

\* publish, lines 149-154: the history of the event's crawl gets the event
AddToHistory(hs, crawl_id, event) ==
  Put(hs, crawl_id,
      EventHistory_add(IF crawl_id \in DOMAIN hs THEN hs[crawl_id]
                                                 ELSE EventHistory,
                       event))

\* the event emit_state_change builds
StateChangeEvent(event_id, from_state, to_state) ==
  [event_id |-> event_id, event_type |-> "state_change",
   data |-> [from_state |-> from_state, to_state |-> to_state]]

(***************************************************************************)
(* execute_crawl and its phases as an instruction list.  fn is the         *)
(* function the instruction belongs to, line its place in manager.py.      *)
(***************************************************************************)
I(op, arg, fn, line) == [op |-> op, arg |-> arg, fn |-> fn, line |-> line]

Code ==
  << I("transition", "initializing", "execute_crawl", 287),        \* 1
     I("save", "", "execute_crawl", 288),                          \* 2
     I("transition", "crawling", "execute_crawl", 295),            \* 3
     I("save", "", "execute_crawl", 296),                          \* 4
     I("enter_phase", "", "_crawl_phase", 349),                    \* 5
     I("set_substate", "discovering_urls", "_crawl_phase", 354),   \* 6
     I("check", "", "_crawl_phase", 358),                          \* 7
     I("discover", "", "_crawl_phase", 365),                       \* 8
     I("urls_progress", "", "_crawl_phase", 382),                  \* 9
     I("set_substate", "downloading_pages", "_crawl_phase", 393),  \* 10
     I("loop_test", "", "_crawl_phase", 397),                      \* 11
     I("check", "", "_crawl_phase", 399),                          \* 12
     I("page_crawled", "", "_crawl_phase", 403),                   \* 13
     I("emit_if", "progress_update", "_crawl_phase", 419),                   \* 14
     I("emit_if", "metrics_update", "_crawl_phase", 420),                   \* 15
     I("loop_next", "", "_crawl_phase", 423),                      \* 16
     I("set_substate", "downloading_documents", "_crawl_phase", 427), \* 17
     I("documents_progress", "", "_crawl_phase", 430),             \* 18
     I("save", "", "_crawl_phase", 435),                           \* 19
     I("if_cancelled", "", "execute_crawl", 302),                  \* 20
     I("transition", "extracting", "execute_crawl", 308),          \* 21
     I("save", "", "execute_crawl", 309),                          \* 22
     I("enter_phase", "", "_extract_phase", 495),                  \* 23
     I("set_substate", "pdf_extraction", "_extract_phase", 499),   \* 24
     I("extractions_progress", "", "_extract_phase", 502),         \* 25
     I("set_substate", "ocr", "_extract_phase", 507),              \* 26
     I("check", "", "_extract_phase", 509),                        \* 27
     I("set_substate", "table_detection", "_extract_phase", 512),  \* 28
     I("check", "", "_extract_phase", 514),                        \* 29
     I("save", "", "_extract_phase", 516),                         \* 30
     I("if_cancelled", "", "execute_crawl", 315),                  \* 31
     I("transition", "processing", "execute_crawl", 321),          \* 32
     I("save", "", "execute_crawl", 322),                          \* 33
     I("enter_phase", "", "_process_phase", 520),                  \* 34
     I("set_substate", "metadata_extraction", "_process_phase", 524), \* 35
     I("check", "", "_process_phase", 526),                        \* 36
     I("set_substate", "quality_scoring", "_process_phase", 529),  \* 37
     I("check", "", "_process_phase", 531),                        \* 38
     I("set_substate", "deduplication", "_process_phase", 534),    \* 39
     I("check", "", "_process_phase", 536),                        \* 40
     I("set_substate", "nemo_curation", "_process_phase", 539),    \* 41
     I("check", "", "_process_phase", 541),                        \* 42
     I("processing_progress", "", "_process_phase", 543),          \* 43
     I("save", "", "_process_phase", 547),                         \* 44
     I("transition", "completed", "execute_crawl", 328),           \* 45
     I("save", "", "execute_crawl", 329),                          \* 46
     I("return", "", "execute_crawl", 331),                        \* 47
     I("save", "", "execute_crawl", 304),                          \* 48
     I("return", "", "execute_crawl", 305),                        \* 49
     I("emit_error", "", "execute_crawl", 335),                    \* 50
     I("record_error", "", "execute_crawl", 336),                  \* 51
     I("transition", "failed", "execute_crawl", 338),              \* 52
     I("save", "", "execute_crawl", 339),                          \* 53
     I("return", "", "execute_crawl", 339) >>                      \* 54

LoopTest == 11
AfterLoop == 17
CancelTail == 48
HandlerEntry == 50

Phases == {"_crawl_phase", "_extract_phase", "_process_phase"}

Max(a, b) == IF a >= b THEN a ELSE b

Min(a, b) == IF a <= b THEN a ELSE b


(***************************************************************************)
(* One instruction of the executing task.  A frame f holds what the task   *)
(* can change; status is "run" (go on with the next instruction),          *)
(* "suspend" (it yielded in an await and continues at f.pc), "wait" (it    *)
(* waits on the cleared gate), "exc" (an Exception was raised at f.pc),    *)
(* "cancelled_error" (asyncio.CancelledError, a BaseException, was raised) *)
(* or "return".  inp is what discover_documents returned.                  *)
(***************************************************************************)
Frame(status) ==
  [sd |-> state_data, store |-> job_store, pc |-> pc, i |-> loop_i,
   disc |-> discovered, clock |-> clock, phase_exc |-> exc_in_phase,
   hist |-> histories, pub |-> published, next_id |-> next_event_id,
   status |-> status]

Exc(f) == [f EXCEPT !.status = "exc"]

Goto(f, target, status) == [f EXCEPT !.pc = target, !.status = status]

\* await event_bus.publish(event) up to its first await: the event is in the
\* history of the crawl
FramePublish(f, event) ==
  [f EXCEPT !.hist = AddToHistory(f.hist, CrawlId, event),
            !.pub = Append(f.pub, event),
            !.next_id = f.next_id + 1]

\* an emit_* helper or _emit_substate_change: the event it builds is published
Emit(f, event_type) == FramePublish(f, CrawlEvent(f.next_id, event_type))

_transition_state_from_read_late(f, to_state, resume_at) ==
  IF job # "present" THEN Exc(f)
  ELSE LET r == transition(f.sd, to_state, f.clock)
       IN  IF r.raised THEN Exc(f)
           ELSE FramePublish(
                  [f EXCEPT !.sd = r.state_data, !.clock = @ + 1,
                            !.pc = resume_at, !.status = "suspend"],
                  StateChangeEvent(f.next_id, r.state_data.current_state,
                                   to_state))

_transition_state(f, to_state, resume_at) ==
  \* KeyError for a deleted job, ValueError for an invalid transition;
  \* otherwise the transition is made, the state_change event is published
  \* and the task yields in emit_state_change
  IF job # "present" THEN Exc(f)
  ELSE LET r == transition(f.sd, to_state, f.clock)
       IN  IF r.raised THEN Exc(f)
           ELSE FramePublish(
                  [f EXCEPT !.sd = r.state_data, !.clock = @ + 1,
                            !.pc = resume_at, !.status = "suspend"],
                  StateChangeEvent(f.next_id, f.sd.current_state, to_state))

\* _check_pause_cancel
_check_pause_cancel(f) ==
  IF job # "present" THEN Exc(f)
  ELSE IF cancel_flag THEN [f EXCEPT !.status = "cancelled_error"]
  ELSE IF pause_flag THEN Goto(f, f.pc + 1, "run")
  ELSE [f EXCEPT !.status = "wait"]

SetProgress_swapped(sd, phase, total, completed) ==
  [sd EXCEPT !.progress[phase].total = completed,
             !.progress[phase].completed = total]

SetProgress(sd, phase, total, completed) ==
  [sd EXCEPT !.progress[phase].total = total,
             !.progress[phase].completed = completed]

Step(f, inp) ==
  LET ins == Code[f.pc]
      next == f.pc + 1
  IN  CASE ins.op = "transition" -> _transition_state(f, ins.arg, next)
        [] ins.op = "save" ->
             [f EXCEPT !.store = _save_job_to_storage(f.store, f.sd),
                       !.pc = next]
        [] ins.op = "enter_phase" ->
             IF job # "present" THEN Exc(f) ELSE Goto(f, next, "run")
        [] ins.op = "set_substate" ->
             LET r == set_substate(f.sd, ins.arg)
             IN  IF r.raised THEN Exc(f)
                 ELSE Emit([f EXCEPT !.sd = r.state_data, !.pc = next,
                                     !.status = "suspend"],
                           "substate_change")
        [] ins.op = "check" -> _check_pause_cancel(f)
        [] ins.op = "discover" -> Goto(f, next, "suspend")
        [] ins.op = "urls_progress" ->
             LET total == IF inp.docs > 0 THEN Max(inp.checked, inp.docs)
                          ELSE SyntheticUrlTotal
                 completed == IF inp.docs > 0 THEN total
                              ELSE f.sd.progress.urls.completed
             IN  Emit([f EXCEPT !.sd = SetProgress(f.sd, "urls", total, completed),
                                !.disc = inp.docs, !.i = 0,
                                !.pc = next, !.status = "suspend"],
                      "progress_update")
        [] ins.op = "loop_test" ->
             IF f.disc = 0 /\ f.i < f.sd.progress.urls.total
             THEN Goto(f, next, "run") ELSE Goto(f, AfterLoop, "run")
        [] ins.op = "page_crawled" ->
             [f EXCEPT !.sd.progress.urls.completed = @ + 1, !.pc = next]
        [] ins.op = "emit_if" ->
             IF f.i % ProgressEmitEvery = 0
             THEN Emit(Goto(f, next, "suspend"), ins.arg)
             ELSE Goto(f, next, "run")
        [] ins.op = "loop_next" ->
             [f EXCEPT !.store = IF f.i % AutoSaveEvery = 0
                                 THEN _save_job_to_storage(f.store, f.sd)
                                 ELSE @,
                       !.i = @ + 1, !.pc = LoopTest]
        [] ins.op = "documents_progress" ->
             LET total == IF f.disc > 0 THEN f.disc ELSE SyntheticDocumentTotal
             IN  Emit([f EXCEPT !.sd = SetProgress(f.sd, "documents", total, total),
                                !.pc = next, !.status = "suspend"],
                      "progress_update")
        [] ins.op = "if_cancelled" ->
             IF job # "present" THEN Exc(f)
             ELSE IF cancel_flag THEN _transition_state(f, "cancelled", CancelTail)
             ELSE Goto(f, next, "run")
        [] ins.op = "extractions_progress" ->
             LET total == f.sd.progress.documents.completed
             IN  Emit([f EXCEPT !.sd = SetProgress(f.sd, "extractions", total, total),
                                !.pc = next, !.status = "suspend"],
                      "progress_update")
        [] ins.op = "processing_progress" ->
             LET total == f.sd.progress.extractions.completed
             IN  Emit([f EXCEPT !.sd = SetProgress(f.sd, "processing", total, total),
                                !.pc = next, !.status = "suspend"],
                      "progress_update")
        [] ins.op = "emit_error" -> Emit(Goto(f, next, "suspend"), "error")
        [] ins.op = "record_error" ->
             [f EXCEPT !.sd.error_message = "execution_error",
                       !.sd.error_count = @ + 1, !.pc = next]
        [] ins.op = "return" -> [f EXCEPT !.status = "return"]

\* try / except Exception of execute_crawl: an Exception raised before the
\* handler enters it, one raised inside the handler leaves execute_crawl.
InTry(at) == at < HandlerEntry

RECURSIVE Run(_, _)
Run(f, inp) ==
  IF f.status = "run"
  THEN CHOOSE r \in {Run(g, inp) : g \in {Step(f, inp)}} : TRUE
  ELSE IF f.status = "exc" /\ InTry(f.pc)
  THEN CHOOSE r \in
         {Run(g, inp) :
            g \in {[f EXCEPT !.pc = HandlerEntry, !.status = "run",
                             !.phase_exc = @ \/ Code[f.pc].fn \in Phases]}} :
         TRUE
  ELSE f

(***************************************************************************)
(* Checkpoint manager (utils/checkpoint.py), for one crawl id              *)
(***************************************************************************)
CheckpointType == {"auto", "manual", "pause", "error"}

\* f"{crawl_id}_ckpt_{checkpoint_number}"
CheckpointId(crawl_id, checkpoint_number) == <<crawl_id, "ckpt", checkpoint_number>>

\* Of the snapshot only the recorded main state is kept: substate, progress
\* and metrics are copied values that no operation of the manager reads.
CheckpointMetadata(number, sd, type) ==
  [checkpoint_id |-> CheckpointId(CrawlId, number),
   checkpoint_number |-> number,
   checkpoint_type |-> type,
   current_state |-> sd.current_state]

\* the checkpoint file: CheckpointData as _save_checkpoint writes it
CheckpointData(number, sd) ==
  [checkpoint_id |-> CheckpointId(CrawlId, number),
   current_state |-> sd.current_state]

WriteFile(files, id, data) ==
  [k \in DOMAIN files \cup {id} |-> IF k = id THEN data ELSE files[k]]

RemoveFile(files, id) == [k \in DOMAIN files \ {id} |-> files[k]]

RemoveAt(seq, k) ==
  [j \in 1..(Len(seq) - 1) |-> IF j < k THEN seq[j] ELSE seq[j + 1]]

create_checkpoint(cps, files, sd, type) ==
  LET checkpoint_number == Len(cps)
  IN  [checkpoints |-> Append(cps, CheckpointMetadata(checkpoint_number, sd, type)),
       files |-> WriteFile(files, CheckpointId(CrawlId, checkpoint_number),
                           CheckpointData(checkpoint_number, sd)),
       checkpoint_id |-> CheckpointId(CrawlId, checkpoint_number)]

\* delete_checkpoint: the first entry with this id is removed with its file
delete_checkpoint(cps, files, checkpoint_id) ==
  LET hits == {k \in DOMAIN cps : cps[k].checkpoint_id = checkpoint_id}
  IN  IF hits = {} THEN [checkpoints |-> cps, files |-> files, found |-> FALSE]
      ELSE LET k == CHOOSE h \in hits : \A g \in hits : h <= g
           IN  [checkpoints |-> RemoveAt(cps, k),
                files |-> RemoveFile(files, checkpoint_id),
                found |-> TRUE]

RECURSIVE DeleteAll(_, _, _, _)
DeleteAll(cps, files, to_delete, count) ==
  IF to_delete = <<>>
  THEN [checkpoints |-> cps, files |-> files, deleted_count |-> count]
  ELSE LET r == delete_checkpoint(cps, files, Head(to_delete).checkpoint_id)
       IN  DeleteAll(r.checkpoints, r.files, Tail(to_delete),
                     IF r.found THEN count + 1 ELSE count)

\* checkpoints[:-keep_last]; for keep_last = 0 Python's [:-0] is the empty list
SliceBeforeLast(seq, keep_last) ==
  IF keep_last = 0 THEN <<>>
  ELSE SubSeq(seq, 1, Max(Len(seq) - keep_last, 0))

delete_old_checkpoints(cps, files, keep_last) ==
  IF Len(cps) <= keep_last
  THEN [checkpoints |-> cps, files |-> files, deleted_count |-> 0]
  ELSE DeleteAll(cps, files, SliceBeforeLast(cps, keep_last), 0)


\* What get_checkpoint and resume_from_checkpoint return: is_none for
\* Python's None, otherwise the CheckpointData read from the file.
NoCheckpoint == [is_none |-> TRUE, current_state |-> "None", checkpoint_id |-> <<>>]

Loaded(data) ==
  [is_none |-> FALSE, current_state |-> data.current_state,
   checkpoint_id |-> data.checkpoint_id]

\* get_checkpoint: the first metadata entry with this id, then its file
get_checkpoint(cps, files, checkpoint_id) ==
  LET hits == {k \in DOMAIN cps : cps[k].checkpoint_id = checkpoint_id}
  IN  IF hits = {} THEN NoCheckpoint
      ELSE IF checkpoint_id \notin DOMAIN files THEN NoCheckpoint
      ELSE Loaded(files[checkpoint_id])

CheckpointTerminalStates == {"completed", "failed", "cancelled"}

resume_from_checkpoint(cps, files, checkpoint_id, validate) ==
  LET checkpoint_data == get_checkpoint(cps, files, checkpoint_id)
  IN  IF checkpoint_data.is_none THEN NoCheckpoint
      ELSE IF validate /\ checkpoint_data.current_state \in CheckpointTerminalStates
      THEN NoCheckpoint
      ELSE checkpoint_data

(***************************************************************************)
(* The event bus (events/event_bus.py)                                     *)
(***************************************************************************)
\* callbacks: a and g are coroutine functions, b is a plain function
JobCallbacks == {"a", "b"}

GlobalCallbacks == {"g"}

CoroutineFunctions == {"a", "g"}

\* websocket connections of the crawl id
Sockets == {"w1"}

\* the tasks that call publish
PublishTasks == {"t1"}

\* The frame of a publish call.  pc is the statement it is at; idx is the
\* position of the list iterator; detached/items hold the subscriber list
\* the iterator walks once cleanup_crawl has removed it from the bus;
\* ws_start/ws_size/ws_seen/ws_detached/ws_items are the set iterator of
\* _broadcast_to_websockets.  invoked, failed and expected record what the
\* call did: the callbacks invoked with the event in order, those that
\* raised, and the subscribers registered from the start of the call on.
IdleFrame ==
  [pc |-> "idle", event |-> NoEvent, idx |-> 0, detached |-> FALSE,
   items |-> <<>>, invoked |-> <<>>, failed |-> {}, expected |-> {},
   ws_start |-> {}, ws_size |-> 0, ws_seen |-> {}, ws_detached |-> FALSE,
   ws_items |-> {},
   sending |-> "none", disconnected |-> {}]

\* self.subscribers.get(crawl_id, []) and self.websockets.get(crawl_id, set())
SubscribersOf(subs) == IF CrawlId \in DOMAIN subs THEN subs[CrawlId] ELSE <<>>

SocketsOf(ws) == IF CrawlId \in DOMAIN ws THEN ws[CrawlId] ELSE {}

Frame_of(t) == publishing[t]

SetFrame(t, frame) == publishing' = [publishing EXCEPT ![t] = frame]

busOtherVars == <<state_data, clock, last_call, managerVars, checkpointVars,
                  iterationVars, discoveryVars>>

\* publish, lines 149-154: the event gets its place in the history
publish_begin(t, event_type) ==
  LET event == CrawlEvent(next_event_id, event_type)
      h == IF CrawlId \in DOMAIN histories THEN histories[CrawlId]
                                           ELSE EventHistory
  IN  /\ running = "none"
      /\ Frame_of(t).pc \in {"idle", "returned", "raised"}
      /\ next_event_id <= MaxPublishes
      /\ next_event_id' = next_event_id + 1
      /\ histories' = Put(histories, CrawlId, EventHistory_add(h, event))
      /\ published' = Append(published, event)
      /\ SetFrame(t, [IdleFrame EXCEPT
                        !.pc = "job_loop", !.event = event, !.idx = 1,
                        !.expected = Range(SubscribersOf(subscribers))
                                       \cup Range(global_subscribers)])
      /\ running' = t
      /\ UNCHANGED <<subscribers, global_subscribers, websockets, busOtherVars>>

\* the list the iterator of a callback loop walks
LoopList(frame) ==
  IF frame.pc \in {"job_loop", "job_await"}
    THEN IF frame.detached THEN frame.items ELSE SubscribersOf(subscribers)
    ELSE global_subscribers

\* one turn of a callback loop (lines 157-175): the iterator is exhausted, or
\* the next callback is invoked; a coroutine function suspends the call, a
\* plain function returns or raises at once
Notify(t, loop, await, after) ==
  LET frame == Frame_of(t)
      list == LoopList(frame)
  IN  /\ running = t
      /\ frame.pc = loop
      /\ IF frame.idx > Len(list)
           THEN /\ SetFrame(t, [frame EXCEPT !.pc = after, !.idx = 1])
                /\ running' = t
         ELSE LET callback == list[frame.idx]
                  called == [frame EXCEPT !.invoked = Append(@, callback)]
              IN  IF callback \in CoroutineFunctions
                    THEN /\ SetFrame(t, [called EXCEPT !.pc = await])
                         /\ running' = "none"
                    ELSE /\ \/ SetFrame(t, [called EXCEPT !.idx = @ + 1])
                            \/ SetFrame(t, [called EXCEPT
                                              !.idx = @ + 1,
                                              !.failed = @ \cup {callback}])
                         /\ running' = t
      /\ UNCHANGED <<histories, subscribers, global_subscribers, websockets,
                     published, next_event_id, busOtherVars>>

\* the awaited callback returns or raises an Exception, which is caught
NotifyResume(t, loop, await) ==
  LET frame == Frame_of(t)
      callback == frame.invoked[Len(frame.invoked)]
  IN  /\ running = "none"
      /\ frame.pc = await
      /\ \/ SetFrame(t, [frame EXCEPT !.pc = loop, !.idx = @ + 1])
         \/ SetFrame(t, [frame EXCEPT !.pc = loop, !.idx = @ + 1,
                                      !.failed = @ \cup {callback}])
      /\ running' = t
      /\ UNCHANGED <<histories, subscribers, global_subscribers, websockets,
                     published, next_event_id, busOtherVars>>

notify_job == \E t \in PublishTasks : Notify(t, "job_loop", "job_await", "global_loop")

notify_job_resume == \E t \in PublishTasks : NotifyResume(t, "job_loop", "job_await")

notify_global == \E t \in PublishTasks : Notify(t, "global_loop", "global_await", "broadcast")

notify_global_resume ==
  \E t \in PublishTasks : NotifyResume(t, "global_loop", "global_await")

\* _broadcast_to_websockets, lines 201-208: without a set for the crawl id it
\* returns, otherwise the iteration over the set begins
broadcast_begin ==
  \E t \in PublishTasks :
    LET frame == Frame_of(t)
    IN  /\ running = t
        /\ frame.pc = "broadcast"
        /\ IF CrawlId \notin DOMAIN websockets
             THEN SetFrame(t, [frame EXCEPT !.pc = "ws_manager"])
             ELSE SetFrame(t, [frame EXCEPT
                                 !.pc = "ws_loop",
                                 !.ws_start = websockets[CrawlId],
                                 !.ws_size = Cardinality(websockets[CrawlId])])
        /\ running' = t
        /\ UNCHANGED <<histories, subscribers, global_subscribers, websockets,
                       published, next_event_id, busOtherVars>>

\* the set object the iterator walks
IteratedSet(frame) ==
  IF frame.ws_detached THEN frame.ws_items ELSE SocketsOf(websockets)

\* the pruning after the loop, line 216: a KeyError if cleanup_crawl has
\* removed the set
Prune(t, frame) ==
  IF CrawlId \notin DOMAIN websockets
    THEN /\ SetFrame(t, [frame EXCEPT !.pc = "raised"])
         /\ running' = "none"
         /\ UNCHANGED websockets
    ELSE /\ SetFrame(t, [frame EXCEPT !.pc = "ws_manager"])
         /\ running' = t
         /\ websockets' = Put(websockets, CrawlId,
                              websockets[CrawlId] \ frame.disconnected)

\* one turn of the loop over the set, lines 210-214.  A set whose size
\* changed since the iteration began raises RuntimeError, outside any try; a
\* set changed at equal size yields any unseen member or ends the loop.
broadcast_next ==
  \E t \in PublishTasks :
    LET frame == Frame_of(t)
        set == IteratedSet(frame)
        unseen == set \ frame.ws_seen
    IN  /\ running = t
        /\ frame.pc = "ws_loop"
        /\ IF Cardinality(set) # frame.ws_size
             THEN /\ SetFrame(t, [frame EXCEPT !.pc = "raised"])
                  /\ running' = "none"
                  /\ UNCHANGED websockets
           ELSE \/ /\ unseen = {} \/ set # frame.ws_start
                   /\ Prune(t, frame)
                \/ \E websocket \in unseen :
                     /\ SetFrame(t, [frame EXCEPT
                                       !.pc = "ws_await",
                                       !.sending = websocket,
                                       !.ws_seen = @ \cup {websocket}])
                     /\ running' = "none"
                     /\ UNCHANGED websockets
        /\ UNCHANGED <<histories, subscribers, global_subscribers, published,
                       next_event_id, busOtherVars>>

\* send_text returns, or raises and the socket is noted as disconnected
broadcast_resume ==
  \E t \in PublishTasks :
    LET frame == Frame_of(t)
    IN  /\ running = "none"
        /\ frame.pc = "ws_await"
        /\ \/ SetFrame(t, [frame EXCEPT !.pc = "ws_loop", !.sending = "none"])
           \/ SetFrame(t, [frame EXCEPT
                             !.pc = "ws_loop", !.sending = "none",
                             !.disconnected = @ \cup {frame.sending}])
        /\ running' = t
        /\ UNCHANGED <<histories, subscribers, global_subscribers, websockets,
                       published, next_event_id, busOtherVars>>

\* _broadcast_via_ws_manager, lines 183-197: every Exception of the manager's
\* broadcast is caught; publish returns
broadcast_via_ws_manager ==
  \E t \in PublishTasks :
    LET frame == Frame_of(t)
    IN  /\ running = t
        /\ frame.pc = "ws_manager"
        /\ SetFrame(t, [frame EXCEPT !.pc = "returned"])
        /\ running' = "none"
        /\ UNCHANGED <<histories, subscribers, global_subscribers, websockets,
                       published, next_event_id, busOtherVars>>

publish == \E t \in PublishTasks, event_type \in EventTypes : publish_begin(t, event_type)

\* subscribe; the model registers a callback once
subscribe ==
  \E callback \in JobCallbacks :
    /\ running = "none"
    /\ callback \notin Range(SubscribersOf(subscribers))
    /\ subscribers' = Put(subscribers, CrawlId,
                          Append(SubscribersOf(subscribers), callback))
    /\ UNCHANGED <<histories, global_subscribers, websockets, publishing,
                   running, published, next_event_id, busOtherVars>>

subscribe_global ==
  \E callback \in GlobalCallbacks :
    /\ running = "none"
    /\ callback \notin Range(global_subscribers)
    /\ global_subscribers' = Append(global_subscribers, callback)
    /\ UNCHANGED <<histories, subscribers, websockets, publishing, running,
                   published, next_event_id, busOtherVars>>

\* list.remove(callback)
Remove(list, x) ==
  LET k == CHOOSE i \in DOMAIN list : list[i] = x /\ \A j \in 1..(i - 1) : list[j] # x
  IN  RemoveAt(list, k)

\* unsubscribe of a registered callback (list.remove of another one raises
\* ValueError and changes nothing); the publish calls under way no longer
\* count it among their subscribers
unsubscribe ==
  \E callback \in JobCallbacks :
    /\ running = "none"
    /\ callback \in Range(SubscribersOf(subscribers))
    /\ subscribers' = Put(subscribers, CrawlId,
                          Remove(subscribers[CrawlId], callback))
    /\ publishing' = [t \in PublishTasks |->
                        [publishing[t] EXCEPT !.expected = @ \ {callback}]]
    /\ UNCHANGED <<histories, global_subscribers, websockets, running,
                   published, next_event_id, busOtherVars>>

add_websocket ==
  \E websocket \in Sockets :
    /\ running = "none"
    /\ websockets' = Put(websockets, CrawlId,
                         SocketsOf(websockets) \cup {websocket})
    /\ UNCHANGED <<histories, subscribers, global_subscribers, publishing,
                   running, published, next_event_id, busOtherVars>>

remove_websocket ==
  \E websocket \in Sockets :
    /\ running = "none"
    /\ CrawlId \in DOMAIN websockets
    /\ websockets' = Put(websockets, CrawlId, websockets[CrawlId] \ {websocket})
    /\ UNCHANGED <<histories, subscribers, global_subscribers, publishing,
                   running, published, next_event_id, busOtherVars>>

\* cleanup_crawl: history, subscribers and websockets of the crawl id are
\* deleted; a publish call under way keeps the list or set object its
\* iterator walks
cleanup_crawl ==
  /\ running = "none"
  /\ histories' = <<>>
  /\ subscribers' = <<>>
  /\ websockets' = <<>>
  /\ published' = <<>>
  /\ publishing' =
       [t \in PublishTasks |->
          LET frame == publishing[t]
          IN  [frame EXCEPT
                 !.expected = @ \cap Range(global_subscribers),
                 !.detached = @ \/ frame.pc \in {"job_loop", "job_await"},
                 !.items = IF frame.pc \in {"job_loop", "job_await"}
                              /\ ~frame.detached
                             THEN SubscribersOf(subscribers) ELSE @,
                 !.ws_detached = @ \/ frame.pc \in {"ws_loop", "ws_await"},
                 !.ws_items = IF frame.pc \in {"ws_loop", "ws_await"}
                                 /\ ~frame.ws_detached
                                THEN SocketsOf(websockets) ELSE @]]
  /\ UNCHANGED <<global_subscribers, running, next_event_id, busOtherVars>>

(***************************************************************************)
(* Document discovery (backend/utils/discovery.py)                         *)
(*                                                                         *)
(* A URL is its host, the segments of its path, the extension of its last  *)
(* segment and the document-type words that occur in it.  Time is counted  *)
(* in seconds.  One call of discover_documents is a coroutine; it is       *)
(* suspended while a request is on the network and while _wait sleeps.     *)
(***************************************************************************)
Url(host, path, ext, words) ==
  [host |-> host, path |-> path, ext |-> ext, words |-> words]

NoUrl == Url("", <<>>, "", {})

\* path.startswith(prefix), segment by segment
StartsWith(path, prefix) ==
  /\ Len(prefix) <= Len(path)
  /\ \A i \in 1..Len(prefix) : prefix[i] = path[i]

\* dict.get(key, default)
DictGet(dict, key, default) == IF key \in DOMAIN dict THEN dict[key] ELSE default

CxcHost == "www.cxc.org"

PlainHost == "example.org"

FileHost == "files.example.net"

Hosts == {CxcHost, PlainHost, FileHost}

\* a profile of DEFAULT_DOMAIN_PROFILES; a host without one has the empty dict
NoProfile == [allow_paths |-> {}, disallow_paths |-> {}, respect_robots |-> "unset", crawl_delay |-> None]

DEFAULT_DOMAIN_PROFILES(host) ==
  IF host = CxcHost
  THEN [allow_paths |-> {<<"syllabus-downloads">>, <<"specimen-papers">>,
                         <<"examinations">>, <<"product">>,
                         <<"wp-content", "uploads">>},
        disallow_paths |-> {},
        respect_robots |-> "unset",
        crawl_delay |-> 1]
  ELSE NoProfile

_path_allowed(url, profile) ==
  /\ profile.allow_paths # {}
       => \E p \in profile.allow_paths : StartsWith(url.path, p)
  /\ ~ \E p \in profile.disallow_paths : StartsWith(url.path, p)

RobotsPolicy(disallow, crawl_delay, sitemaps) ==
  [disallow |-> disallow, crawl_delay |-> crawl_delay, sitemaps |-> sitemaps]

\* RobotsPolicy.allows
allows(policy, url) ==
  \A i \in DOMAIN policy.disallow :
    policy.disallow[i] = <<>> \/ ~StartsWith(url.path, policy.disallow[i])

\* a line of robots.txt: its field, and its value read as an agent, a path, a
\* URL or a number (digits is None when the value is not all digits)
Line(key, agent, path, url, digits) ==
  [key |-> key, agent |-> agent, path |-> path, url |-> url, digits |-> digits]

RECURSIVE ParseLines(_, _, _, _)
ParseLines(lines, i, active_agent, policy) ==
  IF i > Len(lines) THEN policy
  ELSE LET line == lines[i]
       IN  IF line.key = "user-agent"
           THEN ParseLines(lines, i + 1, line.agent = "*", policy)
           ELSE IF line.key = "sitemap"
           THEN ParseLines(lines, i + 1, active_agent,
                           IF line.url # NoUrl
                           THEN [policy EXCEPT !.sitemaps = Append(@, line.url)]
                           ELSE policy)
           ELSE IF ~active_agent
           THEN ParseLines(lines, i + 1, active_agent, policy)
           ELSE IF line.key = "disallow"
           THEN ParseLines(lines, i + 1, active_agent,
                           [policy EXCEPT !.disallow = Append(@, line.path)])
           ELSE IF line.key = "crawl-delay" /\ line.digits # None
           THEN ParseLines(lines, i + 1, active_agent,
                           [policy EXCEPT !.crawl_delay = line.digits])
           ELSE ParseLines(lines, i + 1, active_agent, policy)

_parse_robots_txt(content) ==
  ParseLines(content, 1, FALSE, RobotsPolicy(<<>>, None, <<>>))

_document_type_from_url(url) ==
  LET has(word) == word \in url.words
  IN  IF has("registration") THEN "registration_notice"
      ELSE IF has("notice") THEN "notice"
      ELSE IF has("mark") /\ has("scheme") THEN "mark_scheme"
      ELSE IF has("syllabus") THEN "syllabus"
      ELSE IF has("curriculum") \/ has("scheme-of-work") \/ has("curriculum-guide")
      THEN "curriculum"
      ELSE IF has("guide") /\ has("curriculum") THEN "curriculum"
      ELSE IF has("practice") \/ has("sample") \/ has("mock") THEN "practice"
      ELSE IF has("past") /\ has("paper") THEN "past_paper"
      ELSE IF has("specimen") THEN "past_paper"
      ELSE IF has("paper") THEN "past_paper"
      ELSE "document"

\* source_url is NoUrl when the link source of the URL is not known
_document_type_from_context(url, source_url) ==
  LET doc_type == _document_type_from_url(url)
  IN  IF doc_type # "document" THEN doc_type
      ELSE IF source_url # NoUrl /\ _document_type_from_url(source_url) # "document"
      THEN _document_type_from_url(source_url)
      ELSE doc_type

\* f".{ext}" in url, or ext in content_type
_matches_file_types(url, content_type, file_types) ==
  \/ file_types = {}
  \/ \E ext \in file_types : url.ext = ext \/ content_type = ext

(***************************************************************************)
(* The web: one target page per site, its robots.txt, its sitemap, the     *)
(* files it links to and what the servers answer                            *)
(***************************************************************************)
Sites == {[host |-> CxcHost], [host |-> PlainHost]}

NoSite == [host |-> ""]

Target(s) == Url(s.host, <<"syllabus-downloads">>, "", {"syllabus"})

RobotsUrl(s) == Url(s.host, <<"robots.txt">>, "txt", {})

SitemapUrl(s) == Url(s.host, <<"sitemap.xml">>, "xml", {})

WpMediaUrl(s) == Url(s.host, <<"wp-json", "wp", "v2", "media">>, "", {})

Upload(s, name, words) == Url(s.host, <<"wp-content", "uploads", name>>, "pdf", words)

Private(s) == Url(s.host, <<"private", "d3.pdf">>, "pdf", {})

Remote == Url(FileHost, <<"d5.pdf">>, "pdf", {})

RobotsTxt(s) ==
  <<Line("user-agent", "*", <<>>, NoUrl, None),
    Line("disallow", "", <<"private">>, NoUrl, None),
    Line("crawl-delay", "", <<>>, NoUrl, RobotsCrawlDelay),
    Line("sitemap", "", <<>>, SitemapUrl(s), None)>>

\* <url><loc> entries of sitemap.xml
SitemapEntries(s) == {Upload(s, "d1.pdf", {})}

\* href values of the target page
PageLinks(s) ==
  {Upload(s, "d1.pdf", {}), Upload(s, "paper2.pdf", {"paper"}),
   Upload(s, "gone4.pdf", {}), Private(s), Remote}

\* the orders in which a set of the files of the site can be listed
Listings(s) ==
  {listing \in [1..Cardinality(PageLinks(s)) -> PageLinks(s)] :
     \A i, k \in DOMAIN listing : i # k => listing[i] # listing[k]}

\* one of them, and with it its reverse
OneListing(s) ==
  <<Upload(s, "d1.pdf", {}), Remote, Upload(s, "gone4.pdf", {}), Private(s),
    Upload(s, "paper2.pdf", {"paper"})>>

TwoListings(s) ==
  {OneListing(s), [i \in 1..Len(OneListing(s)) |-> OneListing(s)[Len(OneListing(s)) + 1 - i]]}

Response(status, content_type) == [status |-> status, content_type |-> content_type]

\* the answer of the server to a HEAD or GET of the URL
Server(s, url, method) ==
  IF url \in {RobotsUrl(s), SitemapUrl(s), Target(s)} THEN Response(200, "text")
  ELSE IF url = Upload(s, "gone4.pdf", {}) THEN Response(404, "text")
  ELSE IF url = Remote
  THEN IF method = "HEAD" THEN Response(403, "text") ELSE Response(206, "pdf")
  ELSE IF url \in PageLinks(s) THEN Response(200, "pdf")
  ELSE Response(404, "text")

(***************************************************************************)
(* discover_documents: the configuration and the frame of a call           *)
(***************************************************************************)
JobIds == {"j1", "j2"}

\* filters.file_types of every configuration
FileTypes == {"pdf"}

\* limits.max_documents, limits.max_documents_per_domain (None: not given)
\* and filters.exclude_document_types.  No keywords and no taxonomy hints
\* are given, so there are no subject terms, no program terms and no
\* allowlist of document types: lines 788-797 reject nothing.
Config(max_documents, max_documents_per_domain, exclude_document_types) ==
  [max_documents |-> max_documents,
   max_documents_per_domain |-> max_documents_per_domain,
   exclude_document_types |-> exclude_document_types]

Configs ==
  {Config(m, d, types) : m \in 1..MaxDocuments, d \in {None, 1},
                         types \in {{}, {"syllabus", "past_paper"}}}

\* the configurations that leave max_documents_per_domain out, and those of
\* them that exclude document types
ConfigsWithoutDomainCap == {config \in Configs : config.max_documents_per_domain = None}

ConfigsExcluding == {config \in ConfigsWithoutDomainCap : config.exclude_document_types # {}}

\* lines 595-600, DISCOVERY_MAX_DOCS_PER_DOMAIN not being set
per_domain_limit(config) ==
  IF config.max_documents_per_domain = None THEN config.max_documents
  ELSE config.max_documents_per_domain

IdleCall ==
  [status |-> "idle", config |-> Config(0, None, {}), listing |-> <<>>,
   pc |-> "none", cur |-> NoUrl, wake_at |-> 0, started_at |-> 0,
   returned_at |-> 0,
   delays |-> <<>>, last_request |-> <<>>, cache |-> <<>>,
   cache_loaded |-> <<>>, robots_by_host |-> <<>>, sitemaps |-> <<>>,
   sitemap_i |-> 0, seeds |-> <<>>, seed_i |-> 0, candidate_urls |-> {},
   file_candidates |-> {}, link_sources |-> <<>>, remaining |-> {},
   documents |-> {}, per_domain_counts |-> <<>>, checked_urls |-> 0,
   skipped_urls |-> 0, preflight_at |-> <<>>, requested |-> {},
   accepted_from_cache |-> {}]

NoResult == [IdleCall EXCEPT !.status = "none"]

\* discover_documents, lines 628-632: the delays of the profiles
ProfileDelays ==
  [host \in {h \in Hosts : DEFAULT_DOMAIN_PROFILES(h).crawl_delay # None} |->
     DEFAULT_DOMAIN_PROFILES(host).crawl_delay]

\* respect_robots_txt of the config is not given (True) in any configuration
should_respect(host) ==
  IF DEFAULT_DOMAIN_PROFILES(host).respect_robots = "unset" THEN TRUE
  ELSE DEFAULT_DOMAIN_PROFILES(host).respect_robots = "true"

\* lines 604-632: the frame at the first request of the call
NewCall(config, listing, cache, t) ==
  [IdleCall EXCEPT !.status = "running", !.config = config,
                   !.listing = listing, !.pc = "robots", !.cache = cache, !.cache_loaded = cache,
                   !.delays = ProfileDelays, !.started_at = t]

(***************************************************************************)
(* DomainRequestor                                                         *)
(***************************************************************************)
\* _wait: the seconds it sleeps before the request goes out
wait_for(f, host, t) ==
  LET delay == DictGet(f.delays, host, 0)
  IN  IF delay <= 0 THEN 0
      ELSE IF host \notin DOMAIN f.last_request THEN 0
      ELSE Max(0, delay - (t - f.last_request[host]))

\* _wait, line 115: the timestamp it leaves, t being the time it returns at
_wait(f, host, t) ==
  IF DictGet(f.delays, host, 0) <= 0 THEN f
  ELSE [f EXCEPT !.last_request = Put(@, host, t)]

(***************************************************************************)
(* _preflight_validate and the checks after it                             *)
(***************************************************************************)
_cache_fresh_never(entry, t) == FALSE

_cache_fresh(entry, t) ==
  /\ entry.timestamp # 0
  /\ (t - entry.timestamp) < CACHE_TTL_SECONDS

CacheEntry(url, response, t) ==
  [status |-> response.status, content_type |-> response.content_type,
   timestamp |-> t,
   meta |-> [content_type |-> response.content_type, final_url |-> url]]

\* the candidate is counted as skipped and the loop goes on
Skipped(f) ==
  [f EXCEPT !.skipped_urls = @ + 1, !.pc = "loop", !.cur = NoUrl]

\* lines 784-821: the checks of an accepted preflight, then the append
AfterPreflight(f, url) ==
  LET source == DictGet(f.link_sources, url, NoUrl)
      doc_type == _document_type_from_context(url, source)
  IN  IF /\ f.config.exclude_document_types # {}
         /\ doc_type \in f.config.exclude_document_types
      THEN Skipped(f)
      ELSE [f EXCEPT !.documents = @ \cup {[url |-> url, document_type |-> doc_type]},
                     !.per_domain_counts =
                        Put(@, url.host, DictGet(@, url.host, 0) + 1),
                     !.pc = "loop", !.cur = NoUrl]

\* _preflight_validate, lines 522-528: TRUE when the cache answers
CacheAnswers(f, url, t) ==
  /\ url \in DOMAIN f.cache
  /\ _cache_fresh(f.cache[url], t)

CacheAccepts(f, url) ==
  /\ f.cache[url].status < 400
  /\ _matches_file_types(url, f.cache[url].content_type, FileTypes)

\* _preflight_validate, lines 534-552: the response is recorded and judged
Validated(f, url, response, t) ==
  LET g == [f EXCEPT !.cache = Put(@, url, CacheEntry(url, response, t))]
  IN  IF response.status \notin {200, 206} THEN Skipped(g)
      ELSE IF ~_matches_file_types(url, response.content_type, FileTypes)
      THEN Skipped(g)
      ELSE AfterPreflight(g, url)

DomainCapReached_never(f, host) == FALSE

\* lines 772-774
DomainCapReached(f, host) ==
  /\ per_domain_limit(f.config) > 0
  /\ DictGet(f.per_domain_counts, host, 0) >= per_domain_limit(f.config)

\* one pass of the loop of lines 768-783 over the candidate url, up to the
\* request of the preflight
Candidate(f, url, t) ==
  LET g == [f EXCEPT !.remaining = @ \ {url}]
  IN  IF DomainCapReached(g, url.host) THEN Skipped(g)
      ELSE IF /\ should_respect(url.host)
              /\ url.host \in DOMAIN g.robots_by_host
              /\ ~allows(g.robots_by_host[url.host], url)
      THEN Skipped(g)
      ELSE LET h == [g EXCEPT !.checked_urls = @ + 1,
                              !.preflight_at = Put(@, url, t)]
           IN  IF CacheAnswers(h, url, t)
               THEN IF CacheAccepts(h, url)
                    THEN AfterPreflight([h EXCEPT !.accepted_from_cache = @ \cup {url}], url)
                    ELSE Skipped(h)
               ELSE [h EXCEPT !.pc = "head", !.cur = url]

(***************************************************************************)
(* discover_documents between two requests                                 *)
(***************************************************************************)
\* lines 765-767: the loop over the file candidates begins
BeginLoop(f) == [f EXCEPT !.remaining = f.file_candidates, !.pc = "loop"]

\* lines 720-743: the file candidates, and whether pages are scanned
\* (prefer_sitemaps is True and sitemap_only False; the sitemaps list files
\* only, so the seed pages are the targets)
Classify(f, s) ==
  LET files == {url \in f.candidate_urls :
                  /\ _path_allowed(url, DEFAULT_DOMAIN_PROFILES(url.host))
                  /\ url.ext \in FileTypes}
      should_scan_pages == ~(Cardinality(files) >= f.config.max_documents)
      seed_pages == SubSeq(<<Target(s)>>, 1, Min(MaxPageScans, 1))
      g == [f EXCEPT !.file_candidates = files]
  IN  IF /\ should_scan_pages
         /\ _path_allowed(seed_pages[1], DEFAULT_DOMAIN_PROFILES(seed_pages[1].host))
      THEN [g EXCEPT !.pc = "scan", !.seeds = seed_pages, !.seed_i = 1]
      ELSE BeginLoop(g)

\* lines 637-654: the robots policy of the target's host, its delay, its sitemaps
AfterRobots(f, s, response) ==
  LET host == Target(s).host
      profile == DEFAULT_DOMAIN_PROFILES(host)
      policy == IF response.status = 200 THEN _parse_robots_txt(RobotsTxt(s))
                ELSE RobotsPolicy(<<>>, None, <<>>)
      listed == IF policy.sitemaps = <<>>
                THEN <<Url(host, <<"sitemap_index.xml">>, "xml", {}), SitemapUrl(s)>>
                ELSE policy.sitemaps
  IN  [f EXCEPT !.robots_by_host = Put(@, host, policy),
                !.delays = IF /\ policy.crawl_delay \notin {None, 0}
                              /\ profile.crawl_delay = None
                           THEN Put(@, host, Max(DictGet(@, host, 0), policy.crawl_delay))
                           ELSE @,
                !.sitemaps = SubSeq(listed, 1, Min(MaxSitemaps, Len(listed))),
                !.sitemap_i = 1,
                !.pc = "sitemap"]

\* lines 656-684 and 686-700: the entries of one sitemap become candidates;
\* after the last sitemap comes the probe of the WordPress media API
AfterSitemap(f, s, response) ==
  LET entries == IF response.status = 200 /\ f.sitemaps[f.sitemap_i] = SitemapUrl(s)
                 THEN SitemapEntries(s) ELSE {}
      g == [f EXCEPT !.candidate_urls =
                        @ \cup {loc \in entries :
                                  _path_allowed(loc, DEFAULT_DOMAIN_PROFILES(loc.host))}]
      host == Target(s).host
  IN  IF f.sitemap_i < Len(f.sitemaps) THEN [g EXCEPT !.sitemap_i = @ + 1]
      ELSE IF /\ should_respect(host)
              /\ ~allows(g.robots_by_host[host], WpMediaUrl(s))
      THEN Classify(g, s)
      ELSE [g EXCEPT !.pc = "wp_media"]

\* _fetch_wp_media: a status other than 200 ends it with no items
AfterWpMedia(f, s, response) == Classify(f, s)

\* lines 748-762: the links of a seed page that are files become candidates
AfterScan(f, s, response) ==
  LET seed_url == f.seeds[f.seed_i]
      links == IF response.status = 200 /\ seed_url = Target(s)
               THEN {link \in PageLinks(s) :
                       /\ _path_allowed(link, DEFAULT_DOMAIN_PROFILES(link.host))
                       /\ link.ext \in FileTypes}
               ELSE {}
      g == [f EXCEPT !.file_candidates = @ \cup links,
                     !.link_sources =
                        [url \in DOMAIN @ \cup links |->
                           IF url \in DOMAIN @ THEN @[url] ELSE seed_url]]
  IN  IF f.seed_i < Len(f.seeds) THEN [g EXCEPT !.seed_i = @ + 1]
      ELSE BeginLoop(g)

\* _preflight_validate, lines 531-533: HEAD, and GET when HEAD is refused
AfterHead(f, response, t) ==
  IF response.status \in {401, 403, 405} THEN [f EXCEPT !.pc = "get"]
  ELSE Validated(f, f.cur, response, t)

RequestPcs == {"robots", "sitemap", "wp_media", "scan", "head", "get"}

\* the URL and the method of the request the call is about to make
RequestUrl(f, s) ==
  CASE f.pc = "robots" -> RobotsUrl(s)
    [] f.pc = "sitemap" -> f.sitemaps[f.sitemap_i]
    [] f.pc = "wp_media" -> WpMediaUrl(s)
    [] f.pc = "scan" -> f.seeds[f.seed_i]
    [] OTHER -> f.cur

RequestMethod(f) == IF f.pc = "head" THEN "HEAD" ELSE "GET"

\* the call from the response of its request to its next request
Continue(f, s, t) ==
  LET response == Server(s, RequestUrl(f, s), RequestMethod(f))
  IN  CASE f.pc = "robots" -> AfterRobots(f, s, response)
        [] f.pc = "sitemap" -> AfterSitemap(f, s, response)
        [] f.pc = "wp_media" -> AfterWpMedia(f, s, response)
        [] f.pc = "scan" -> AfterScan(f, s, response)
        [] f.pc = "head" -> AfterHead(f, response, t)
        [] OTHER -> Validated(f, f.cur, response, t)

\* the request leaves at time t: _wait has returned, the server sees it
Sent(f, s, t) ==
  LET url == RequestUrl(f, s)
      g == _wait([f EXCEPT !.status = "running"], url.host, t)
  IN  Continue(IF f.pc \in {"head", "get"}
               THEN [g EXCEPT !.requested = @ \cup {url}] ELSE g, s, t)

Received(host, t) ==
  sent' = [sent EXCEPT ![host] = [n |-> @.n + 1, at |-> t]]

discoveryOtherVars ==
  <<state_data, clock, last_call, managerVars, checkpointVars, iterationVars,
    eventVars>>

\* discover_documents is called by the job, once: the cache is loaded and the
\* delays are set up.  listing is the order in which list(file_candidates)
\* of line 767 lists the URLs, the order of a set of strings.
discover_documents(j, config, listing) ==
  /\ discovering[j].status = "idle"
  /\ results[j].status = "none"
  /\ discovering' = [discovering EXCEPT ![j] =
                       NewCall(config, listing, url_cache_file, time)]
  /\ UNCHANGED <<site, time, url_cache_file, sent, results, discoveryOtherVars>>

\* DomainRequestor.get / head: _wait does not sleep and the request goes out
request_send(j) ==
  LET f == discovering[j]
  IN  /\ f.status = "running"
      /\ f.pc \in RequestPcs
      /\ wait_for(f, RequestUrl(f, site).host, time) = 0
      /\ discovering' = [discovering EXCEPT ![j] = Sent(f, site, time)]
      /\ Received(RequestUrl(f, site).host, time)
      /\ UNCHANGED <<site, time, url_cache_file, results, discoveryOtherVars>>

\* _wait, lines 111-114: asyncio.sleep(wait_for)
request_sleep(j) ==
  LET f == discovering[j]
  IN  /\ f.status = "running"
      /\ f.pc \in RequestPcs
      /\ wait_for(f, RequestUrl(f, site).host, time) > 0
      /\ discovering' = [discovering EXCEPT ![j] =
                           [f EXCEPT !.status = "sleeping",
                                     !.wake_at = time + wait_for(f, RequestUrl(f, site).host, time)]]
      /\ UNCHANGED <<site, time, url_cache_file, sent, results, discoveryOtherVars>>

\* the sleep is over: the timestamp is taken and the request goes out
request_wake(j) ==
  LET f == discovering[j]
      t == Max(time, f.wake_at)
  IN  /\ f.status = "sleeping"
      /\ time' = t
      /\ discovering' = [discovering EXCEPT ![j] = Sent(f, site, t)]
      /\ Received(RequestUrl(f, site).host, t)
      /\ UNCHANGED <<site, url_cache_file, results, discoveryOtherVars>>

\* the next URL of list(file_candidates)
NextCandidate(f) ==
  f.listing[CHOOSE i \in DOMAIN f.listing :
              /\ f.listing[i] \in f.remaining
              /\ \A k \in 1..(i - 1) : f.listing[k] \notin f.remaining]

\* lines 768-783: the loop takes the next candidate
candidate_loop(j) ==
  LET f == discovering[j]
  IN  /\ f.status = "running"
      /\ f.pc = "loop"
      /\ Cardinality(f.documents) < f.config.max_documents
      /\ f.remaining # {}
      /\ discovering' = [discovering EXCEPT ![j] = Candidate(f, NextCandidate(f), time)]
      /\ UNCHANGED <<site, time, url_cache_file, sent, results, discoveryOtherVars>>

\* lines 769-770 and 825-831: the loop ends, the cache is saved, the result
\* is returned
discover_return(j) ==
  LET f == discovering[j]
  IN  /\ f.status = "running"
      /\ f.pc = "loop"
      /\ Cardinality(f.documents) >= f.config.max_documents \/ f.remaining = {}
      /\ url_cache_file' = f.cache
      /\ results' = [results EXCEPT ![j] = [f EXCEPT !.status = "returned", !.returned_at = time]]
      /\ discovering' = [discovering EXCEPT ![j] = IdleCall]
      /\ UNCHANGED <<site, time, sent, discoveryOtherVars>>

\* time passes while no call is running
Elapse ==
  /\ \A j \in JobIds : discovering[j].status = "idle"
  /\ time < CACHE_TTL_SECONDS
  /\ \E seconds \in {CACHE_TTL_SECONDS - TtlMargin, CACHE_TTL_SECONDS} :
       time' = time + seconds
  /\ UNCHANGED <<site, url_cache_file, sent, discovering, results,
                 discoveryOtherVars>>

InitDiscoveryIdle ==
  /\ site = NoSite
  /\ time = 1
  /\ url_cache_file = <<>>
  /\ sent = [host \in Hosts |-> [n |-> 0, at |-> None]]
  /\ discovering = [j \in JobIds |-> IdleCall]
  /\ results = [j \in JobIds |-> NoResult]

(***************************************************************************)
(* Manager operations                                                      *)
(***************************************************************************)
InitCore ==
  /\ job = "absent"
  /\ state_data = CrawlStateData(0)
  /\ pause_flag = TRUE
  /\ cancel_flag = FALSE
  /\ job_store = NoRecord
  /\ create_save_pending = FALSE
  /\ task = "none"
  /\ pc = 0
  /\ loop_i = 0
  /\ discovered = 0
  /\ clock = 0
  /\ inflight = [op \in ApiOps |-> 0]
  /\ checkpoints = <<>>
  /\ checkpoint_files = <<>>
  /\ last_call = Call("init", "", "")
  /\ pause_from = "none"
  /\ exc_in_phase = FALSE
  /\ iterations = <<>>
  /\ fingerprints = <<>>
  /\ iteration_files = <<>>
  /\ fingerprint_files = <<>>
  /\ npauses = 0

\* EventBus()
InitBus ==
  /\ histories = <<>>
  /\ subscribers = <<>>
  /\ global_subscribers = <<>>
  /\ websockets = <<>>
  /\ publishing = [t \in PublishTasks |-> IdleFrame]
  /\ running = "none"
  /\ published = <<>>
  /\ next_event_id = 1

Init == InitCore /\ InitBus /\ InitDiscoveryIdle

\* create_crawl; the save is scheduled as a task of its own
create_crawl ==
  /\ job = "absent"
  /\ job' = "present"
  /\ state_data' = CrawlStateData(clock)
  /\ clock' = clock + 1
  /\ pause_flag' = TRUE
  /\ cancel_flag' = FALSE
  /\ create_save_pending' = TRUE
  /\ last_call' = Call("create", "", "id")
  /\ UNCHANGED <<utilityVars, job_store, task, pc, loop_i, discovered, inflight,
                 checkpoints, checkpoint_files, pause_from,
                 exc_in_phase, npauses>>

\* asyncio.create_task(self._save_job_to_storage(crawl_id)) runs
CreateSaveTask ==
  /\ create_save_pending
  /\ create_save_pending' = FALSE
  /\ job_store' = _save_job_to_storage(job_store, state_data)
  /\ last_call' = Call("save_task", "", "")
  /\ UNCHANGED <<utilityVars, job, state_data, pause_flag, cancel_flag, task, pc, loop_i,
                 discovered, clock, inflight, checkpoints, checkpoint_files,
                 pause_from, exc_in_phase, npauses>>

\* background_tasks.add_task(crawler_manager.execute_crawl, crawl_id)
execute_crawl ==
  /\ job = "present"
  /\ task = "none"
  /\ task' = "ready"
  /\ pc' = 1
  /\ last_call' = Call("execute", "", "scheduled")
  /\ UNCHANGED <<utilityVars, job, state_data, pause_flag, cancel_flag, job_store,
                 create_save_pending, loop_i, discovered, clock, inflight,
                 checkpoints, checkpoint_files, pause_from,
                 exc_in_phase, npauses>>

TaskAfter(f) ==
  CASE f.status = "suspend" -> "ready"
    [] f.status = "wait" -> "waiting"
    [] f.status = "return" -> "done"
    [] f.status = "exc" -> "raised"
    [] f.status = "cancelled_error" -> "cancelled"

Commit(f) ==
  /\ state_data' = f.sd
  /\ job_store' = f.store
  /\ pc' = f.pc
  /\ loop_i' = f.i
  /\ discovered' = f.disc
  /\ clock' = f.clock
  /\ exc_in_phase' = f.phase_exc
  /\ task' = TaskAfter(f)

\* The executing task runs from its suspension point to the next one.  A
\* task woken at the gate returns from wait() and goes on after the check.
\* The save task of create_crawl is older in the loop's ready queue
\* than anything but the start of execute_crawl, so it has run by then.
ExecStep ==
  /\ task \in {"ready", "woken"}
  /\ pc > 1 => ~create_save_pending
  /\ \E docs \in 0..MaxDiscovered, checked \in 0..MaxChecked :
       LET start == IF task = "woken" THEN Goto(Frame("run"), pc + 1, "run")
                    ELSE Frame("run")
       IN  Commit(Run(start, [docs |-> docs, checked |-> checked]))
  /\ last_call' = Call("execute", "", "step")
  /\ UNCHANGED <<utilityVars, job, pause_flag, cancel_flag, create_save_pending, inflight,
                 checkpoints, checkpoint_files, pause_from, npauses>>

\* The publish the task is suspended in raises (event_bus.py:209, a set
\* changed during iteration).  discover_documents is awaited inside a
\* try / except of its own (manager.py:363-380), so it is excluded.
ExecRaise ==
  /\ task = "ready"
  /\ ~create_save_pending
  /\ pc > 1
  /\ Code[pc - 1].op # "discover"
  /\ LET fn == IF pc = CancelTail THEN "execute_crawl" ELSE Code[pc - 1].fn
     IN  IF InTry(pc)
         THEN Commit(Run([Frame("run") EXCEPT
                            !.pc = HandlerEntry,
                            !.phase_exc = @ \/ fn \in Phases],
                         [docs |-> 0, checked |-> 0]))
         ELSE Commit(Frame("exc"))
  /\ last_call' = Call("execute", "", "publish_raised")
  /\ UNCHANGED <<utilityVars, job, pause_flag, cancel_flag, create_save_pending, inflight,
                 checkpoints, checkpoint_files, pause_from, npauses>>

\* An accepted pause, resume or cancel call is suspended in the publish of
\* its _transition_state.  Control calls are issued one at a time: a call is
\* made when no accepted call is still suspended there.  A call that returns
\* False has returned before it changed anything.
\*
\* create_checkpoint as pause_crawl calls it, inside try / except Exception
\* (manager.py:626-633).  outcome is what the disk does: "written", or an
\* OSError in _save_checkpoint before anything is stored, or an OSError in
\* _save_checkpoint_metadata after the file is written and the metadata is
\* appended.  The exception is reported and dropped.
CheckpointOutcomes == {"written", "data_write_failed", "metadata_write_failed"}

PauseCheckpoint(outcome) ==
  LET c == create_checkpoint(checkpoints, checkpoint_files, state_data, "pause")
  IN  IF outcome = "data_write_failed"
      THEN [checkpoints |-> checkpoints, files |-> checkpoint_files]
      ELSE [checkpoints |-> c.checkpoints, files |-> c.files]

\* pause_crawl with an exception of create_checkpoint that is not caught
pause_crawl_checkpoint_propagates(outcome) ==
  /\ job = "present"
  /\ ~create_save_pending
  /\ InFlight = 0
  /\ IF ~can_pause(state_data)
     THEN UNCHANGED vars
     ELSE /\ npauses < MaxPauses
          /\ checkpoints' = PauseCheckpoint(outcome).checkpoints
          /\ checkpoint_files' = PauseCheckpoint(outcome).files
          /\ LET r == IF outcome = "written"
                      THEN transition(state_data, "paused", clock)
                      ELSE [raised |-> TRUE, state_data |-> state_data]
             IN  /\ pause_flag' = IF outcome = "written" THEN FALSE
                                  ELSE pause_flag
                 /\ state_data' = r.state_data
                 /\ clock' = IF r.raised THEN clock ELSE clock + 1
                 /\ inflight' = IF r.raised THEN inflight
                                ELSE [inflight EXCEPT !["pause"] = @ + 1]
                 /\ last_call' = Call("pause", outcome,
                                      IF r.raised THEN "raised" ELSE "pending")
          /\ pause_from' = state_data.current_state
          /\ npauses' = npauses + 1
          /\ UNCHANGED <<utilityVars, job, cancel_flag, job_store, create_save_pending,
                         task, pc, loop_i, discovered, exc_in_phase>>

pause_crawl_checkpoint(outcome) ==
  \* pause_crawl up to its first suspension, in emit_state_change
  /\ job = "present"
  /\ ~create_save_pending
  /\ InFlight = 0
  /\ IF ~can_pause(state_data)
     THEN UNCHANGED vars
     ELSE /\ npauses < MaxPauses
          /\ checkpoints' = PauseCheckpoint(outcome).checkpoints
          /\ checkpoint_files' = PauseCheckpoint(outcome).files
          /\ pause_flag' = FALSE
          /\ LET r == transition(state_data, "paused", clock)
             IN  /\ state_data' = r.state_data
                 /\ clock' = IF r.raised THEN clock ELSE clock + 1
                 /\ inflight' = IF r.raised THEN inflight
                                ELSE [inflight EXCEPT !["pause"] = @ + 1]
                 /\ last_call' = Call("pause", outcome,
                                      IF r.raised THEN "raised" ELSE "pending")
          /\ pause_from' = state_data.current_state
          /\ npauses' = npauses + 1
          /\ UNCHANGED <<utilityVars, job, cancel_flag, job_store, create_save_pending,
                         task, pc, loop_i, discovered, exc_in_phase>>

\* pause_crawl whose checkpoint is written
pause_crawl == pause_crawl_checkpoint("written")

\* pause_crawl whose checkpoint write fails
pause_crawl_checkpoint_fails ==
  \E outcome \in CheckpointOutcomes \ {"written"} :
    pause_crawl_checkpoint(outcome)

\* the rest of pause_crawl, resume_crawl and cancel_crawl: save, return True
ApiReturn(op) ==
  /\ inflight[op] > 0
  /\ inflight' = [inflight EXCEPT ![op] = @ - 1]
  /\ job_store' = _save_job_to_storage(job_store, state_data)
  /\ last_call' = Call(op, "", "true")
  /\ UNCHANGED <<utilityVars, job, state_data, pause_flag, cancel_flag,
                 create_save_pending, task, pc, loop_i, discovered, clock,
                 checkpoints, checkpoint_files, pause_from,
                 exc_in_phase, npauses>>

pause_crawl_return == ApiReturn("pause")

resume_crawl_return == ApiReturn("resume")

cancel_crawl_return == ApiReturn("cancel")

ResumeTarget_always_crawling(state_history) == "crawling"

\* the scan of resume_crawl for the last state that is not PAUSED
ResumeTarget(state_history) ==
  LET found == {k \in 1..(Len(state_history) - 1) :
                  state_history[k].to_state # "paused"}
  IN  IF found = {} THEN "crawling"
      ELSE state_history[CHOOSE k \in found : \A j \in found : j <= k].to_state

\* asyncio.Event.set(): a task waiting on the event is woken
Woken(t) == IF t = "waiting" THEN "woken" ELSE t

resume_crawl ==
  /\ job = "present"
  /\ ~create_save_pending
  /\ InFlight = 0
  /\ IF ~can_resume(state_data)
     THEN UNCHANGED vars
     ELSE /\ pause_flag' = TRUE
          /\ task' = Woken(task)
          /\ pause_from' = "none"
          /\ LET r == transition(state_data,
                                 ResumeTarget(state_data.state_history), clock)
             IN  /\ state_data' = r.state_data
                 /\ clock' = IF r.raised THEN clock ELSE clock + 1
                 /\ inflight' = IF r.raised THEN inflight
                                ELSE [inflight EXCEPT !["resume"] = @ + 1]
                 /\ last_call' = Call("resume", "",
                                      IF r.raised THEN "raised" ELSE "pending")
          /\ UNCHANGED <<utilityVars, job, cancel_flag, job_store, create_save_pending, pc,
                         loop_i, discovered, checkpoints, checkpoint_files,
                         exc_in_phase, npauses>>

cancel_crawl ==
  /\ job = "present"
  /\ ~create_save_pending
  /\ InFlight = 0
  /\ IF is_terminal_state(state_data)
     THEN UNCHANGED vars
     ELSE /\ cancel_flag' = TRUE
          /\ pause_flag' = TRUE
          /\ task' = Woken(task)
          /\ pause_from' = "none"
          /\ LET r == transition(state_data, "cancelled", clock)
             IN  /\ state_data' = r.state_data
                 /\ clock' = IF r.raised THEN clock ELSE clock + 1
                 /\ inflight' = IF r.raised THEN inflight
                                ELSE [inflight EXCEPT !["cancel"] = @ + 1]
                 /\ last_call' = Call("cancel", "",
                                      IF r.raised THEN "raised" ELSE "pending")
          /\ UNCHANGED <<utilityVars, job, job_store, create_save_pending, pc, loop_i,
                         discovered, checkpoints, checkpoint_files,
                         exc_in_phase, npauses>>

\* delete_crawl: the job leaves jobs, state_machines and the flag tables and
\* its durable record is removed; the task keeps its references.
delete_crawl ==
  /\ job = "present"
  /\ ~create_save_pending
  /\ job' = "deleted"
  /\ job_store' = NoRecord
  /\ last_call' = Call("delete", "", "true")
  /\ UNCHANGED <<utilityVars, state_data, pause_flag, cancel_flag, create_save_pending,
                 task, pc, loop_i, discovered, clock, inflight, checkpoints,
                 checkpoint_files, pause_from, exc_in_phase, npauses>>

Next ==
  \/ create_crawl
  \/ CreateSaveTask
  \/ execute_crawl
  \/ ExecStep
  \/ ExecRaise
  \/ pause_crawl
  \/ pause_crawl_return
  \/ resume_crawl
  \/ resume_crawl_return
  \/ cancel_crawl
  \/ cancel_crawl_return
  \/ delete_crawl

Spec == Init /\ [][Next]_vars

\* The event loop runs every task that can run.
FairSpec ==
  Spec /\ WF_vars(ExecStep) /\ WF_vars(execute_crawl) /\ WF_vars(CreateSaveTask)


\* A run that nothing interferes with: the job is created and executed, and
\* no pause, resume, cancel or delete is called and no publish raises.
NextRun == create_crawl \/ CreateSaveTask \/ execute_crawl \/ ExecStep

SpecRun ==
  /\ Init
  /\ [][NextRun]_vars
  /\ WF_vars(ExecStep) /\ WF_vars(execute_crawl) /\ WF_vars(CreateSaveTask)

\* A run in which the job is paused and the disk may refuse the checkpoint.
NextPause ==
  \/ create_crawl
  \/ CreateSaveTask
  \/ execute_crawl
  \/ ExecStep
  \/ pause_crawl
  \/ pause_crawl_checkpoint_fails
  \/ pause_crawl_return

SpecPause ==
  /\ Init
  /\ [][NextPause]_vars
  /\ WF_vars(ExecStep) /\ WF_vars(execute_crawl) /\ WF_vars(CreateSaveTask)
  /\ WF_vars(pause_crawl_return)

(***************************************************************************)
(* The manager together with the event bus: every emit_* call of the task  *)
(* and of pause_crawl, resume_crawl and cancel_crawl puts its event into   *)
(* the history of the crawl.  Nothing is subscribed and no WebSocket is    *)
(* connected, so publish has no one to notify.  discover_documents finds   *)
(* documents, so the page loop of the fallback is not entered, and the     *)
(* pause checkpoint is written.                                            *)
(***************************************************************************)
busIdleVars ==
  <<subscribers, global_subscribers, websockets, publishing, running,
    discoveryVars>>

CommitEvents(f) ==
  /\ histories' = f.hist
  /\ published' = f.pub
  /\ next_event_id' = f.next_id

ExecStepPublish ==
  /\ task \in {"ready", "woken"}
  /\ pc > 1 => ~create_save_pending
  /\ \E docs \in {MaxDiscovered}, checked \in {MaxChecked} :
       LET start == IF task = "woken" THEN Goto(Frame("run"), pc + 1, "run")
                    ELSE Frame("run")
           f == Run(start, [docs |-> docs, checked |-> checked])
       IN  Commit(f) /\ CommitEvents(f)
  /\ last_call' = Call("execute", "", "step")
  /\ UNCHANGED <<iterationVars, busIdleVars, job, pause_flag, cancel_flag,
                 create_save_pending, inflight, checkpoints, checkpoint_files,
                 pause_from, npauses>>

\* _transition_state as pause_crawl, resume_crawl and cancel_crawl call it,
\* lines 554-565: from_state is read before the transition, and the event is
\* published when the transition did not raise
PublishStateChange(raised, from_state, to_state) ==
  LET event == StateChangeEvent(next_event_id, from_state, to_state)
  IN  IF raised THEN UNCHANGED <<histories, published, next_event_id>>
      ELSE /\ histories' = AddToHistory(histories, CrawlId, event)
           /\ published' = Append(published, event)
           /\ next_event_id' = next_event_id + 1

pause_crawl_publish ==
  /\ job = "present"
  /\ ~create_save_pending
  /\ InFlight = 0
  /\ IF ~can_pause(state_data)
     THEN UNCHANGED vars
     ELSE /\ npauses < MaxPauses
          /\ checkpoints' = PauseCheckpoint("written").checkpoints
          /\ checkpoint_files' = PauseCheckpoint("written").files
          /\ pause_flag' = FALSE
          /\ LET r == transition(state_data, "paused", clock)
             IN  /\ state_data' = r.state_data
                 /\ clock' = IF r.raised THEN clock ELSE clock + 1
                 /\ inflight' = IF r.raised THEN inflight
                                ELSE [inflight EXCEPT !["pause"] = @ + 1]
                 /\ last_call' = Call("pause", "written",
                                      IF r.raised THEN "raised" ELSE "pending")
                 /\ PublishStateChange(r.raised, state_data.current_state,
                                       "paused")
          /\ pause_from' = state_data.current_state
          /\ npauses' = npauses + 1
          /\ UNCHANGED <<iterationVars, busIdleVars, job, cancel_flag,
                         job_store, create_save_pending, task, pc, loop_i,
                         discovered, exc_in_phase>>

resume_crawl_publish ==
  /\ job = "present"
  /\ ~create_save_pending
  /\ InFlight = 0
  /\ IF ~can_resume(state_data)
     THEN UNCHANGED vars
     ELSE /\ pause_flag' = TRUE
          /\ task' = Woken(task)
          /\ pause_from' = "none"
          /\ LET target_state == ResumeTarget(state_data.state_history)
                 r == transition(state_data, target_state, clock)
             IN  /\ state_data' = r.state_data
                 /\ clock' = IF r.raised THEN clock ELSE clock + 1
                 /\ inflight' = IF r.raised THEN inflight
                                ELSE [inflight EXCEPT !["resume"] = @ + 1]
                 /\ last_call' = Call("resume", "",
                                      IF r.raised THEN "raised" ELSE "pending")
                 /\ PublishStateChange(r.raised, state_data.current_state,
                                       target_state)
          /\ UNCHANGED <<iterationVars, busIdleVars, job, cancel_flag,
                         job_store, create_save_pending, pc, loop_i,
                         discovered, checkpoints, checkpoint_files,
                         exc_in_phase, npauses>>

cancel_crawl_publish ==
  /\ job = "present"
  /\ ~create_save_pending
  /\ InFlight = 0
  /\ IF is_terminal_state(state_data)
     THEN UNCHANGED vars
     ELSE /\ cancel_flag' = TRUE
          /\ pause_flag' = TRUE
          /\ task' = Woken(task)
          /\ pause_from' = "none"
          /\ LET r == transition(state_data, "cancelled", clock)
             IN  /\ state_data' = r.state_data
                 /\ clock' = IF r.raised THEN clock ELSE clock + 1
                 /\ inflight' = IF r.raised THEN inflight
                                ELSE [inflight EXCEPT !["cancel"] = @ + 1]
                 /\ last_call' = Call("cancel", "",
                                      IF r.raised THEN "raised" ELSE "pending")
                 /\ PublishStateChange(r.raised, state_data.current_state,
                                       "cancelled")
          /\ UNCHANGED <<iterationVars, busIdleVars, job, job_store,
                         create_save_pending, pc, loop_i, discovered,
                         checkpoints, checkpoint_files, exc_in_phase, npauses>>

NextPublish ==
  \/ create_crawl
  \/ CreateSaveTask
  \/ execute_crawl
  \/ ExecStepPublish
  \/ pause_crawl_publish
  \/ pause_crawl_return
  \/ resume_crawl_publish
  \/ resume_crawl_return
  \/ cancel_crawl_publish
  \/ cancel_crawl_return
  \/ delete_crawl

SpecPublish == Init /\ [][NextPublish]_vars

(***************************************************************************)
(* The state machine driven directly, as its unit tests drive it           *)
(***************************************************************************)
SMTransition ==
  \E to_state \in CrawlState :
    LET r == transition(state_data, to_state, clock)
    IN  /\ r.raised \/ Len(state_data.state_history) < MaxHistory
        /\ state_data' = r.state_data
        /\ last_call' = Call("transition", to_state,
                             IF r.raised THEN "raised" ELSE "true")
        /\ UNCHANGED <<utilityVars, clock, managerVars, checkpointVars>>

SMSetSubstate ==
  \E substate \in CrawlSubstate :
    LET r == set_substate(state_data, substate)
    IN  /\ state_data' = r.state_data
        /\ last_call' = Call("set_substate", substate,
                             IF r.raised THEN "raised" ELSE "true")
        /\ UNCHANGED <<utilityVars, clock, managerVars, checkpointVars>>

\* time passes between two calls
SMTick ==
  /\ clock < MaxClock
  /\ clock' = clock + 1
  /\ last_call' = Call("tick", "", "")
  /\ UNCHANGED <<utilityVars, state_data, managerVars, checkpointVars>>

NextSM == SMTransition \/ SMSetSubstate \/ SMTick

SpecSM == Init /\ [][NextSM]_vars

(***************************************************************************)
(* The checkpoint manager driven directly (routers/iterations.py)          *)
(***************************************************************************)
CkptStates == {"crawling", "paused", "failed"}

KeepLastValues == 0..2

CkptCreate ==
  \E s \in CkptStates, type \in {"manual", "auto"} :
    LET c == create_checkpoint(checkpoints, checkpoint_files,
                               [state_data EXCEPT !.current_state = s], type)
    IN  /\ Len(checkpoints) < MaxCheckpoints
        /\ checkpoints' = c.checkpoints
        /\ checkpoint_files' = c.files
        /\ last_call' = Call("create_checkpoint", c.checkpoint_id, "id")
        /\ UNCHANGED <<utilityVars, state_data, clock, managerVars>>

CkptDelete ==
  \E number \in 0..MaxCheckpoints :
    LET r == delete_checkpoint(checkpoints, checkpoint_files,
                               CheckpointId(CrawlId, number))
    IN  /\ checkpoints' = r.checkpoints
        /\ checkpoint_files' = r.files
        /\ last_call' = Call("delete_checkpoint", CheckpointId(CrawlId, number),
                             IF r.found THEN "true" ELSE "false")
        /\ UNCHANGED <<utilityVars, state_data, clock, managerVars>>

CkptPrune ==
  \E keep_last \in KeepLastValues :
    LET r == delete_old_checkpoints(checkpoints, checkpoint_files, keep_last)
    IN  /\ checkpoints' = r.checkpoints
        /\ checkpoint_files' = r.files
        /\ last_call' = Call("delete_old_checkpoints", keep_last,
                             r.deleted_count)
        /\ UNCHANGED <<utilityVars, state_data, clock, managerVars>>

CkptResume ==
  \E number \in 0..MaxCheckpoints, validate \in BOOLEAN :
    /\ last_call' = Call("resume_from_checkpoint",
                         <<CheckpointId(CrawlId, number), validate>>,
                         resume_from_checkpoint(checkpoints, checkpoint_files,
                                                CheckpointId(CrawlId, number),
                                                validate))
    /\ UNCHANGED <<utilityVars, state_data, clock, managerVars, checkpointVars>>

NextCkpt == CkptCreate \/ CkptDelete \/ CkptPrune \/ CkptResume

SpecCkpt == Init /\ [][NextCkpt]_vars


(***************************************************************************)
(* The iteration manager (utils/iteration_manager.py)                      *)
(***************************************************************************)
IterationMode == {"baseline", "incremental", "full"}

ChangeType == {"new", "modified", "unchanged", "deleted"}

CrawlIds == {"c1", "c2"}

Urls == {"u1", "u2", "u3"}

\* document bodies (bytes)
Contents == {<<1>>, <<2, 2>>}

\* None where a string is optional (an iteration id, a header, a change type)
NoIteration == <<>>

NoHeader == "None"

NoChangeType == "None"

\* f"{crawl_id}_iter_{iteration_number}"
IterationId(crawl_id, iteration_number) == <<crawl_id, "iter", iteration_number>>

\* config, stats, started_at and output_dir are carried along unread by the
\* operations modelled here and are left out; fingerprints_file is the path
\* create_iteration assigns, named by the iteration id.
IterationMetadata(iteration_id, crawl_id, iteration_number, parent_iteration_id, baseline_iteration_id, mode) ==
  [iteration_id |-> iteration_id,
   crawl_id |-> crawl_id,
   iteration_number |-> iteration_number,
   parent_iteration_id |-> parent_iteration_id,
   baseline_iteration_id |-> baseline_iteration_id,
   mode |-> mode,
   completed_at |-> None,
   fingerprints_file |-> iteration_id]

\* hashlib.sha256(content).hexdigest()
Sha256(content) == <<"sha256", content>>

DocumentFingerprint(url, content, etag, last_modified, now) ==
  [url |-> url,
   content_hash |-> Sha256(content),
   last_modified |-> last_modified,
   etag |-> etag,
   file_size |-> Len(content),
   crawled_at |-> now]

\* json.dump(..., default=str) of a datetime, and its parse by the pydantic
\* model; None is written as null
DatetimeToJson(t) == IF t = None THEN <<"null">> ELSE <<"str", t>>

DatetimeFromJson(j) == IF j = <<"null">> THEN None ELSE j[2]

\* _save_iteration: metadata.dict() as JSON
SerializeIteration(metadata) ==
  [metadata EXCEPT !.completed_at = DatetimeToJson(metadata.completed_at)]

\* IterationMetadata(**data) of _load_iterations
ParseIteration(data) ==
  [data EXCEPT !.completed_at = DatetimeFromJson(data.completed_at)]

\* _save_fingerprints: {url: fp.dict()} as JSON
SerializeFingerprints(fps) ==
  [url \in DOMAIN fps |->
     [fps[url] EXCEPT !.crawled_at = DatetimeToJson(fps[url].crawled_at)]]

\* {url: DocumentFingerprint(**fp)} of _load_iterations
ParseFingerprints(fp_data) ==
  [url \in DOMAIN fp_data |->
     [fp_data[url] EXCEPT !.crawled_at = DatetimeFromJson(fp_data[url].crawled_at)]]

\* iterations.sort(key=lambda x: x.iteration_number)
RECURSIVE SortByNumber(_)
SortByNumber(metas) ==
  IF metas = {} THEN <<>>
  ELSE LET first == CHOOSE m \in metas :
                      \A other \in metas :
                        m.iteration_number <= other.iteration_number
       IN  <<first>> \o SortByNumber(metas \ {first})

_get_iterations_for_crawl(its, crawl_id) ==
  SortByNumber({its[id] : id \in {i \in DOMAIN its : its[i].crawl_id = crawl_id}})

\* self.fingerprints.get(iteration_id, {})
FingerprintsOf(fps, iteration_id) ==
  IF iteration_id \in DOMAIN fps THEN fps[iteration_id] ELSE <<>>

NewIteration_parent_is_first(its, crawl_id, mode) ==
  LET existing == _get_iterations_for_crawl(its, crawl_id)
      iteration_number == Len(existing)
  IN  IterationMetadata(
        IterationId(crawl_id, iteration_number),
        crawl_id,
        iteration_number,
        IF existing # <<>> THEN existing[1].iteration_id ELSE NoIteration,
        IF existing # <<>> THEN existing[1].iteration_id ELSE NoIteration,
        mode)
NewIteration(its, crawl_id, mode) ==
  \* the metadata create_iteration builds for the next iteration of crawl_id
  LET existing == _get_iterations_for_crawl(its, crawl_id)
      iteration_number == Len(existing)
  IN  IterationMetadata(
        IterationId(crawl_id, iteration_number),
        crawl_id,
        iteration_number,
        IF existing # <<>> THEN existing[Len(existing)].iteration_id
                           ELSE NoIteration,
        IF existing # <<>> THEN existing[1].iteration_id ELSE NoIteration,
        mode)

create_iteration(crawl_id, mode) ==
  LET metadata == NewIteration(iterations, crawl_id, mode)
  IN  /\ Cardinality(DOMAIN iterations) < MaxIterations
      /\ iterations' = Put(iterations, metadata.iteration_id, metadata)
      /\ fingerprints' = Put(fingerprints, metadata.iteration_id, <<>>)
      /\ iteration_files' = WriteFile(iteration_files, metadata.iteration_id,
                                      SerializeIteration(metadata))
      /\ last_call' = Call("create_iteration", <<crawl_id, mode>>,
                           metadata.iteration_id)
      /\ UNCHANGED <<fingerprint_files, state_data, clock, managerVars,
                     checkpointVars, eventVars, discoveryVars>>

\* python truth value of an optional header
Truthy(header) == header # NoHeader /\ header # ""

Answer(should_crawl, change_type) ==
  [should_crawl |-> should_crawl, change_type |-> change_type]

should_crawl_url_last_modified_first(its, fps, iteration_id, url, current_etag, current_last_modified) ==
  IF iteration_id \notin DOMAIN its THEN Answer(TRUE, NoChangeType)
  ELSE LET metadata == its[iteration_id]
           parent_fingerprints ==
             FingerprintsOf(fps, metadata.parent_iteration_id)
       IN  IF metadata.mode \in {"baseline", "full"} THEN Answer(TRUE, "new")
           ELSE IF metadata.parent_iteration_id = NoIteration
             THEN Answer(TRUE, "new")
           ELSE IF url \notin DOMAIN parent_fingerprints
             THEN Answer(TRUE, "new")
           ELSE LET parent_fp == parent_fingerprints[url]
                IN  IF /\ Truthy(current_last_modified)
                       /\ Truthy(parent_fp.last_modified)
                      THEN IF current_last_modified = parent_fp.last_modified
                             THEN Answer(FALSE, "unchanged")
                             ELSE Answer(TRUE, "modified")
                    ELSE IF Truthy(current_etag) /\ Truthy(parent_fp.etag)
                      THEN IF current_etag = parent_fp.etag
                             THEN Answer(FALSE, "unchanged")
                             ELSE Answer(TRUE, "modified")
                    ELSE Answer(TRUE, "modified")
should_crawl_url(its, fps, iteration_id, url, current_etag, current_last_modified) ==
  IF iteration_id \notin DOMAIN its THEN Answer(TRUE, NoChangeType)
  ELSE LET metadata == its[iteration_id]
           parent_fingerprints ==
             FingerprintsOf(fps, metadata.parent_iteration_id)
       IN  IF metadata.mode \in {"baseline", "full"} THEN Answer(TRUE, "new")
           ELSE IF metadata.parent_iteration_id = NoIteration
             THEN Answer(TRUE, "new")
           ELSE IF url \notin DOMAIN parent_fingerprints
             THEN Answer(TRUE, "new")
           ELSE LET parent_fp == parent_fingerprints[url]
                IN  IF Truthy(current_etag) /\ Truthy(parent_fp.etag)
                      THEN IF current_etag = parent_fp.etag
                             THEN Answer(FALSE, "unchanged")
                             ELSE Answer(TRUE, "modified")
                    ELSE IF /\ Truthy(current_last_modified)
                            /\ Truthy(parent_fp.last_modified)
                      THEN IF current_last_modified = parent_fp.last_modified
                             THEN Answer(FALSE, "unchanged")
                             ELSE Answer(TRUE, "modified")
                    ELSE Answer(TRUE, "modified")

record_document(iteration_id, url, content, etag, last_modified) ==
  LET fingerprint == DocumentFingerprint(url, content, etag, last_modified, clock)
  IN  /\ fingerprints' =
           Put(fingerprints, iteration_id,
               Put(FingerprintsOf(fingerprints, iteration_id), url, fingerprint))
      /\ last_call' = Call("record_document", <<iteration_id, url>>, fingerprint)
      /\ UNCHANGED <<iterations, iteration_files, fingerprint_files, state_data,
                     clock, managerVars, checkpointVars, eventVars, discoveryVars>>

\* list(a_set): the elements in the order the set iterates them
RECURSIVE ListOf(_)
ListOf(S) ==
  IF S = {} THEN <<>>
  ELSE LET x == CHOOSE e \in S : TRUE IN <<x>> \o ListOf(S \ {x})

compare_iterations_new_is_current(fps, baseline_iteration_id, current_iteration_id) ==
  LET baseline_fps == FingerprintsOf(fps, baseline_iteration_id)
      current_fps == FingerprintsOf(fps, current_iteration_id)
      baseline_urls == DOMAIN baseline_fps
      current_urls == DOMAIN current_fps
      common_urls == baseline_urls \cap current_urls
  IN  [baseline_iteration_id |-> baseline_iteration_id,
       current_iteration_id |-> current_iteration_id,
       new_documents |-> ListOf(current_urls),
       deleted_documents |-> ListOf(baseline_urls \ current_urls),
       unchanged_documents |->
         ListOf({url \in common_urls :
                   baseline_fps[url].content_hash = current_fps[url].content_hash}),
       modified_documents |->
         ListOf({url \in common_urls :
                   baseline_fps[url].content_hash # current_fps[url].content_hash})]
compare_iterations(fps, baseline_iteration_id, current_iteration_id) ==
  LET baseline_fps == FingerprintsOf(fps, baseline_iteration_id)
      current_fps == FingerprintsOf(fps, current_iteration_id)
      baseline_urls == DOMAIN baseline_fps
      current_urls == DOMAIN current_fps
      common_urls == baseline_urls \cap current_urls
  IN  [baseline_iteration_id |-> baseline_iteration_id,
       current_iteration_id |-> current_iteration_id,
       new_documents |-> ListOf(current_urls \ baseline_urls),
       deleted_documents |-> ListOf(baseline_urls \ current_urls),
       unchanged_documents |->
         ListOf({url \in common_urls :
                   baseline_fps[url].content_hash = current_fps[url].content_hash}),
       modified_documents |->
         ListOf({url \in common_urls :
                   baseline_fps[url].content_hash # current_fps[url].content_hash})]

complete_iteration_metadata_only(iteration_id) ==
  IF iteration_id \notin DOMAIN iterations
    THEN /\ last_call' = Call("complete_iteration", iteration_id, "ValueError")
         /\ UNCHANGED <<iterationVars, state_data, clock, managerVars,
                        checkpointVars, eventVars, discoveryVars>>
    ELSE LET metadata == [iterations[iteration_id] EXCEPT !.completed_at = clock]
         IN  /\ clock < MaxClock
             /\ clock' = clock + 1
             /\ iterations' = Put(iterations, iteration_id, metadata)
             /\ fingerprint_files' = fingerprint_files
             /\ iteration_files' = WriteFile(iteration_files, iteration_id,
                                             SerializeIteration(metadata))
             /\ last_call' = Call("complete_iteration", iteration_id, "None")
             /\ UNCHANGED <<fingerprints, state_data, managerVars,
                            checkpointVars, eventVars, discoveryVars>>
complete_iteration(iteration_id) ==
  \* an unknown id raises ValueError
  IF iteration_id \notin DOMAIN iterations
    THEN /\ last_call' = Call("complete_iteration", iteration_id, "ValueError")
         /\ UNCHANGED <<iterationVars, state_data, clock, managerVars,
                        checkpointVars, eventVars, discoveryVars>>
    ELSE LET metadata == [iterations[iteration_id] EXCEPT !.completed_at = clock]
         IN  /\ clock < MaxClock
             /\ clock' = clock + 1
             /\ iterations' = Put(iterations, iteration_id, metadata)
             /\ fingerprint_files' =
                  WriteFile(fingerprint_files, metadata.fingerprints_file,
                            SerializeFingerprints(
                              FingerprintsOf(fingerprints, iteration_id)))
             /\ iteration_files' = WriteFile(iteration_files, iteration_id,
                                             SerializeIteration(metadata))
             /\ last_call' = Call("complete_iteration", iteration_id, "None")
             /\ UNCHANGED <<fingerprints, state_data, managerVars,
                            checkpointVars, eventVars, discoveryVars>>

\* IterationManager(storage_dir): a new manager over the same storage
_load_iterations ==
  /\ iterations' =
       [id \in DOMAIN iteration_files |-> ParseIteration(iteration_files[id])]
  /\ fingerprints' =
       [id \in {i \in DOMAIN iteration_files :
                  ParseIteration(iteration_files[i]).fingerprints_file
                    \in DOMAIN fingerprint_files} |->
          ParseFingerprints(
            fingerprint_files[ParseIteration(iteration_files[id]).fingerprints_file])]
  /\ last_call' = Call("_load_iterations", "", "None")
  /\ UNCHANGED <<iteration_files, fingerprint_files, state_data, clock,
                 managerVars, checkpointVars, eventVars, discoveryVars>>

\* routers/iterations.py: the baseline iteration is created when the crawl id
\* has none yet (configure_iterations), every further one by
\* create_next_iteration with the mode of the request
configure_iterations ==
  \E crawl_id \in CrawlIds :
    /\ _get_iterations_for_crawl(iterations, crawl_id) = <<>>
    /\ create_iteration(crawl_id, "baseline")

create_next_iteration ==
  \E crawl_id \in CrawlIds, mode \in IterationMode :
    /\ _get_iterations_for_crawl(iterations, crawl_id) # <<>>
    /\ create_iteration(crawl_id, mode)

\* an iteration id no create_iteration of the model returns
UnknownIteration == IterationId("c1", MaxIterations)

IterComplete ==
  \E iteration_id \in DOMAIN iterations \cup {UnknownIteration} :
    complete_iteration(iteration_id)

NextIter ==
  \/ configure_iterations
  \/ create_next_iteration
  \/ IterComplete
  \/ _load_iterations

SpecIter == Init /\ [][NextIter]_vars


\* a baseline and one re-crawl of crawl id c1, in any modes
create_baseline_or_recrawl ==
  \E mode \in IterationMode :
    /\ \A id \in DOMAIN iterations :
         iterations[id].parent_iteration_id = NoIteration
    /\ create_iteration("c1", mode)

\* documents recorded without validators
CompareRecord ==
  \E iteration_id \in DOMAIN iterations, url \in Urls, content \in Contents :
    record_document(iteration_id, url, content, NoHeader, NoHeader)

CompareQuery ==
  \E baseline_iteration_id \in DOMAIN iterations \cup {UnknownIteration},
     current_iteration_id \in DOMAIN iterations \cup {UnknownIteration} :
    /\ last_call' = Call("compare_iterations",
                         <<baseline_iteration_id, current_iteration_id>>,
                         compare_iterations(fingerprints, baseline_iteration_id,
                                            current_iteration_id))
    /\ UNCHANGED <<iterationVars, state_data, clock, managerVars,
                   checkpointVars, eventVars, discoveryVars>>

NextCompare == create_baseline_or_recrawl \/ CompareRecord \/ CompareQuery

SpecCompare == Init /\ [][NextCompare]_vars

\* validators of the recorded responses and of the requests
RecordedEtags == {NoHeader, "e1"}

RecordedLastModified == {NoHeader, "m1"}

SuppliedEtags == {NoHeader, "e1", "e2"}

SuppliedLastModified == {NoHeader, "m1", "m2"}

\* one document recorded with or without each validator
ShouldRecord ==
  \E iteration_id \in DOMAIN iterations, etag \in RecordedEtags,
     last_modified \in RecordedLastModified :
    record_document(iteration_id, "u1", <<1>>, etag, last_modified)

ShouldQuery ==
  \E iteration_id \in DOMAIN iterations \cup {UnknownIteration},
     url \in {"u1", "u2"}, current_etag \in SuppliedEtags,
     current_last_modified \in SuppliedLastModified :
    /\ last_call' = Call("should_crawl_url",
                         <<iteration_id, url, current_etag, current_last_modified>>,
                         should_crawl_url(iterations, fingerprints, iteration_id,
                                          url, current_etag,
                                          current_last_modified))
    /\ UNCHANGED <<iterationVars, state_data, clock, managerVars,
                   checkpointVars, eventVars, discoveryVars>>

NextShould == create_baseline_or_recrawl \/ ShouldRecord \/ ShouldQuery

SpecShould == Init /\ [][NextShould]_vars

\* the baseline iteration of crawl id c1, recorded, completed and reloaded
RoundTripCreate ==
  /\ iterations = <<>>
  /\ create_iteration("c1", "baseline")

RoundTripRecord ==
  \E iteration_id \in DOMAIN iterations, url \in {"u1", "u2"},
     content \in Contents :
    record_document(iteration_id, url, content, "e1", NoHeader)

NextRoundTrip ==
  \/ RoundTripCreate
  \/ RoundTripRecord
  \/ IterComplete
  \/ _load_iterations
  \/ CompareQuery

SpecRoundTrip == Init /\ [][NextRoundTrip]_vars

\* the bus with publishers, subscribers and connections coming and going
NextBus ==
  \/ publish
  \/ notify_job
  \/ notify_job_resume
  \/ notify_global
  \/ notify_global_resume
  \/ broadcast_begin
  \/ broadcast_next
  \/ broadcast_resume
  \/ broadcast_via_ws_manager
  \/ subscribe
  \/ subscribe_global
  \/ unsubscribe
  \/ add_websocket
  \/ remove_websocket

SpecBus == Init /\ [][NextBus]_vars

\* The history after a run of earlier publish calls that have all returned:
\* PrefillCounts events, of which every PrefillPeriods-th is a state change.
\* The earlier events carry the serial numbers up to 0.
PrefillCounts ==
  {0, MaxEventsByType - 1, MaxEventsByType, MaxEvents - 1, MaxEvents}

PrefillPeriods == {1, 2, 3}

PublishedBefore(n, period) ==
  [i \in 1..n |->
     CrawlEvent(i - n, IF i % period = 0 THEN "state_change"
                                         ELSE "progress_update")]

\* the history that add builds from events[first..last] on top of h: add is
\* applied to the events in order, the first half of the range before the
\* second, each intermediate history being a value before the next add reads it
RECURSIVE AddRange(_, _, _, _)
AddRange(h, events, first, last) ==
  IF first > last THEN h
  ELSE IF first = last THEN EventHistory_add(h, events[first])
  ELSE LET mid == (first + last) \div 2
       IN  CHOOSE after \in
             {AddRange(half, events, mid + 1, last) :
                half \in {AddRange(h, events, first, mid)}} : TRUE

\* the history that add builds from the first k of the events
HistoryAfter(events, k) == AddRange(EventHistory, events, 1, k)

InitHistory ==
  /\ InitCore
  /\ InitDiscoveryIdle
  /\ subscribers = <<>>
  /\ global_subscribers = <<>>
  /\ websockets = <<>>
  /\ publishing = [t \in PublishTasks |-> IdleFrame]
  /\ running = "none"
  /\ next_event_id = 1
  /\ \E n \in PrefillCounts, period \in PrefillPeriods :
       /\ published = PublishedBefore(n, period)
       /\ histories = IF n = 0 THEN <<>>
                      ELSE Put(<<>>, CrawlId, HistoryAfter(published, n))

NextHistory ==
  \/ publish
  \/ notify_job
  \/ notify_global
  \/ broadcast_begin
  \/ broadcast_via_ws_manager
  \/ cleanup_crawl

SpecHistory == InitHistory /\ [][NextHistory]_vars

(***************************************************************************)
(* Discovery: calls of discover_documents one after the other               *)
(***************************************************************************)
InitDiscover ==
  /\ InitCore
  /\ InitBus
  /\ site \in Sites
  /\ time = 1
  /\ url_cache_file = <<>>
  /\ sent = [host \in Hosts |-> [n |-> 0, at |-> None]]
  /\ discovering = [j \in JobIds |-> IdleCall]
  /\ results = [j \in JobIds |-> NoResult]

\* one call, every configuration, every order of the candidates
NextDiscover ==
  \/ /\ results["j1"].status = "none"
     /\ discovering["j1"].status = "idle"
     /\ \E config \in Configs, listing \in Listings(site) :
          discover_documents("j1", config, listing)
  \/ request_send("j1")
  \/ request_sleep("j1")
  \/ request_wake("j1")
  \/ candidate_loop("j1")
  \/ discover_return("j1")

SpecDiscover == InitDiscover /\ [][NextDiscover]_vars

\* two calls, the second after the first has returned
NextCache ==
  \/ Elapse
  \/ \E config \in ConfigsWithoutDomainCap, listing \in TwoListings(site) :
       \/ discover_documents("j1", config, listing)
       \/ /\ results["j1"].status = "returned"
          /\ discover_documents("j2", config, listing)
  \/ \E j \in JobIds :
       \/ request_send(j)
       \/ request_sleep(j)
       \/ request_wake(j)
       \/ candidate_loop(j)
       \/ discover_return(j)

SpecCache == InitDiscover /\ [][NextCache]_vars

\* two jobs that discover concurrently
NextJobs ==
  \E j \in JobIds :
    \/ \E config \in ConfigsExcluding :
         discover_documents(j, config, OneListing(site))
    \/ request_send(j)
    \/ request_sleep(j)
    \/ request_wake(j)
    \/ candidate_loop(j)
    \/ discover_return(j)

SpecJobs == InitDiscover /\ [][NextJobs]_vars

(***************************************************************************)
(* Properties                                                              *)
(***************************************************************************)
history == state_data.state_history

\* steps in which a call is accepted, returns, or the task runs
IsPauseReturn == inflight'["pause"] < inflight["pause"]

IsResumeCall == last_call'.op = "resume" /\ last_call'.ret # "true"

IsTaskStep == last_call'.op = "execute" /\ last_call'.ret # "scheduled"

\* pause_crawl has returned True and neither resume nor cancel was called
PauseReturned == pause_from # "none" /\ inflight["pause"] = 0

\* C1: once the job's current_state is COMPLETED, FAILED or CANCELLED, no
\* step of the executing task and no pause, resume or cancel call changes it.
C1_TerminalIsFinal ==
  [][is_terminal_state(state_data)
       => state_data'.current_state = state_data.current_state]_vars

\* a cancelled job whose task went on, failed and tried to enter FAILED
C1_Witness ==
  /\ state_data.current_state = "cancelled"
  /\ task = "raised"
  /\ state_data.error_count > 0

\* C2: from the moment cancel_crawl has passed its terminal check (it then
\* returns true) the job is CANCELLED, whatever steps the task still takes.
C2_CancelledStays ==
  cancel_flag => state_data.current_state = "cancelled"

\* cancel arrived in PROCESSING, returned true, and the task has ended since
C2_Witness ==
  /\ cancel_flag
  /\ inflight["cancel"] = 0
  /\ task \in {"raised", "cancelled"}
  /\ Len(history) > 0
  /\ history[Len(history)].from_state = "processing"

\* C3 as claimed: a pause of an active job returns True with the job PAUSED
\* and resumable, it stays resumable until the next resume call (which then
\* returns True), and that resume restores the main state before the pause.
C3_PauseResumeRestores ==
  /\ [](PauseReturned => can_resume(state_data))
  /\ [][IsResumeCall => /\ last_call'.ret = "pending"
                        /\ state_data'.current_state = pause_from]_vars

\* C4 as claimed: while pause_crawl has returned True with the job PAUSED and
\* neither resume nor cancel was called, no step of the executing task
\* changes the main state or the substate.
C4_PausedTaskIsIdle ==
  [][(PauseReturned /\ state_data.current_state = "paused" /\ IsTaskStep)
       => /\ state_data'.current_state = "paused"
          /\ state_data'.current_substate = state_data.current_substate]_vars

\* C5: a transition to a state that is not an allowed successor raises and
\* leaves the whole state data (current_state, state_history, started_at,
\* completed_at, paused_at) as it was.
C5_InvalidTransitionRejected ==
  [][(last_call'.op = "transition"
        /\ last_call'.arg \notin VALID_TRANSITIONS[state_data.current_state])
       => /\ last_call'.ret = "raised"
          /\ state_data' = state_data]_vars

\* a rejected transition on a job that has a history and timestamps
C5_Witness ==
  /\ last_call.op = "transition"
  /\ last_call.ret = "raised"
  /\ Len(history) >= 2
  /\ state_data.started_at # None
  /\ state_data.paused_at # None

HistoryIsPath ==
  /\ \A k \in DOMAIN history :
       /\ history[k].from_state =
            (IF k = 1 THEN "queued" ELSE history[k - 1].to_state)
       /\ history[k].to_state \in VALID_TRANSITIONS[history[k].from_state]
  /\ state_data.current_state =
       (IF history = <<>> THEN "queued" ELSE history[Len(history)].to_state)

\* C6: state_history is a path of the transition graph from QUEUED that ends
\* in current_state, and a step appends at most one record to it.
C6_HistoryIsPath ==
  /\ []HistoryIsPath
  /\ [][/\ Len(state_data'.state_history) <= Len(history) + 1
        /\ SubSeq(state_data'.state_history, 1, Len(history)) = history
        /\ (state_data'.current_state # state_data.current_state
              => Len(state_data'.state_history) = Len(history) + 1)]_vars

\* a history with a pause and a resume in it
C6_Witness ==
  /\ Len(history) >= 5
  /\ \E k \in DOMAIN history : history[k].from_state = "paused"

\* C7 as claimed: after an Exception raised inside a phase, the job has its
\* error recorded once and is FAILED when execute_crawl has ended.  Only
\* runs whose handler was not itself cut short by a failing publish count.
C7_PhaseFailureFails ==
  (exc_in_phase /\ task \in {"done", "raised"}
     /\ last_call = Call("execute", "", "step"))
    => /\ state_data.error_message # "None"
       /\ state_data.error_count = 1
       /\ state_data.current_state = "failed"

StraightPath ==
  <<"queued", "initializing", "crawling", "extracting", "processing",
    "completed">>

\* C8: without pause, resume, cancel, delete or failure, execute_crawl ends,
\* and it ends with the job COMPLETED through the five transitions in order,
\* whether discovery returned candidates or not.
C8_RunsToCompleted ==
  /\ [](task \in {"done", "raised", "cancelled"}
          => /\ task = "done"
             /\ state_data.current_state = "completed"
             /\ Len(history) = 5
             /\ \A k \in 1..5 : /\ history[k].from_state = StraightPath[k]
                                /\ history[k].to_state = StraightPath[k + 1])
  /\ ((task = "ready" /\ pc = 1) ~> (task = "done"))

\* the run over the synthetic fallback, ended
C8_Witness ==
  /\ task = "done"
  /\ state_data.current_state = "completed"
  /\ discovered = 0
  /\ state_data.progress.urls.completed = SyntheticUrlTotal

\* C9 as claimed: when pause_crawl has just returned True the job cannot be
\* paused, so a second pause_crawl called at once returns False; a call
\* that returns False (pause of a job that cannot pause, resume of a job
\* that is not PAUSED, cancel of a terminal job) has changed nothing, which
\* is how pause_crawl, resume_crawl and cancel_crawl above return False.
C9_Idempotence ==
  last_call = Call("pause", "", "true") => ~can_pause(state_data)

\* C10 as claimed: the checkpoints a job has carry pairwise distinct numbers
\* and ids, and every checkpoint file belongs to one of them only.
C10_CheckpointsDistinct ==
  \A a, b \in DOMAIN checkpoints :
    a # b => /\ checkpoints[a].checkpoint_number # checkpoints[b].checkpoint_number
             /\ checkpoints[a].checkpoint_id # checkpoints[b].checkpoint_id

\* C11 as claimed: resume_from_checkpoint(id, validate=True) returns None for
\* an unknown id and for every checkpoint whose recorded state is terminal,
\* and the checkpoint data for every checkpoint the job has whose recorded
\* state is not terminal.
C11_ResumeOnlyNonTerminal ==
  \A number \in 0..MaxCheckpoints :
    LET id == CheckpointId(CrawlId, number)
        stored == {k \in DOMAIN checkpoints : checkpoints[k].checkpoint_id = id}
    IN  (last_call.op = "resume_from_checkpoint" /\ last_call.arg = <<id, TRUE>>)
          => /\ stored = {} => last_call.ret.is_none
             /\ \A k \in stored :
                  IF checkpoints[k].current_state \in CheckpointTerminalStates
                  THEN last_call.ret.is_none
                  ELSE /\ ~last_call.ret.is_none
                       /\ last_call.ret.checkpoint_id = id
                       /\ last_call.ret.current_state =
                            checkpoints[k].current_state

\* a step in which pause_crawl went past its can_pause check
IsPauseAccept == last_call'.op = "pause" /\ last_call'.ret # "true"

\* C12: a pause_crawl whose checkpoint write fails still clears the pause
\* gate and makes the PAUSED transition without raising, and the call then
\* returns True.
C12_PauseSurvivesCheckpointFailure ==
  /\ [][(IsPauseAccept /\ last_call'.arg # "written")
         => /\ ~pause_flag'
            /\ state_data'.current_state = "paused"
            /\ last_call'.ret = "pending"]_vars
  /\ ((inflight["pause"] > 0) ~> (last_call = Call("pause", "", "true")))

\* a pause that returned True although no checkpoint could be stored
C12_Witness ==
  /\ last_call = Call("pause", "", "true")
  /\ npauses = 1
  /\ checkpoints = <<>>

\* the iterations of a crawl id held by the manager
IterationsOf(its, crawl_id) ==
  {its[id] : id \in {i \in DOMAIN its : its[i].crawl_id = crawl_id}}

IsIterCreate == last_call'.op = "create_iteration"

Created == iterations'[last_call'.ret]

\* C13 as the code has it: iteration 0 of a crawl id has no parent, and every
\* later iteration's parent is the iteration of that crawl id with the highest
\* number existing when the new iteration is created, completed or not.
C13_ParentIsMostRecentExisting ==
  /\ [](\A id \in DOMAIN iterations :
          (iterations[id].iteration_number = 0)
            <=> (iterations[id].parent_iteration_id = NoIteration))
  /\ [][IsIterCreate =>
          LET existing == IterationsOf(iterations, Created.crawl_id)
          IN  /\ (existing = {}) <=> (Created.iteration_number = 0)
              /\ existing # {} =>
                   \E parent \in existing :
                     /\ Created.parent_iteration_id = parent.iteration_id
                     /\ \A other \in existing :
                          other.iteration_number <= parent.iteration_number]_vars

\* C13 as stated: iteration 0 of a crawl id has no parent, and every later
\* iteration's parent is the most recently completed iteration of that crawl
\* id at the moment the new iteration is created.
C13_ParentIsMostRecentlyCompleted ==
  [][IsIterCreate =>
       LET existing == IterationsOf(iterations, Created.crawl_id)
           completed == {m \in existing : m.completed_at # None}
       IN  /\ Created.iteration_number = 0
                => Created.parent_iteration_id = NoIteration
           /\ Created.iteration_number > 0 =>
                \E parent \in completed :
                  /\ Created.parent_iteration_id = parent.iteration_id
                  /\ \A other \in completed :
                       other.completed_at <= parent.completed_at]_vars

C13_Witness ==
  /\ last_call.op = "create_iteration"
  /\ last_call.ret = IterationId("c1", 2)
  /\ iterations[IterationId("c1", 2)].parent_iteration_id = IterationId("c1", 1)
  /\ iterations[IterationId("c1", 1)].completed_at = None
  /\ iterations[IterationId("c1", 0)].completed_at # None

\* C14: create_iteration numbers the new iteration by the count of iterations
\* already existing for its crawl id and links its baseline to iteration 0 of
\* that crawl id, iteration 0 itself included (a self-reference).
C14_NumberAndBaseline ==
  [][IsIterCreate =>
       /\ Created.iteration_number
            = Cardinality(IterationsOf(iterations, Created.crawl_id))
       /\ Created.baseline_iteration_id = IterationId(Created.crawl_id, 0)
       /\ Created.baseline_iteration_id \in DOMAIN iterations']_vars

NoDuplicates(seq) == Len(seq) = Cardinality(Range(seq))

\* C15: compare(baseline, current) splits the URLs of the two iterations into
\* four pairwise disjoint lists: new holds exactly the URLs only in current,
\* deleted exactly the URLs only in baseline, and a URL of both is in
\* unchanged when its two content hashes are equal and in modified otherwise.
C15_ComparePartitions ==
  last_call.op = "compare_iterations" =>
    LET baseline_fps == FingerprintsOf(fingerprints, last_call.arg[1])
        current_fps == FingerprintsOf(fingerprints, last_call.arg[2])
        new == last_call.ret.new_documents
        deleted == last_call.ret.deleted_documents
        unchanged == last_call.ret.unchanged_documents
        modified == last_call.ret.modified_documents
        lists == <<new, deleted, unchanged, modified>>
    IN  /\ \A k \in 1..4 : NoDuplicates(lists[k])
        /\ \A k, l \in 1..4 : k # l => Range(lists[k]) \cap Range(lists[l]) = {}
        /\ UNION {Range(lists[k]) : k \in 1..4}
             = DOMAIN baseline_fps \cup DOMAIN current_fps
        /\ Range(new) = DOMAIN current_fps \ DOMAIN baseline_fps
        /\ Range(deleted) = DOMAIN baseline_fps \ DOMAIN current_fps
        /\ \A url \in DOMAIN baseline_fps \cap DOMAIN current_fps :
             IF baseline_fps[url].content_hash = current_fps[url].content_hash
               THEN url \in Range(unchanged)
               ELSE url \in Range(modified)

C15_Witness ==
  /\ last_call.op = "compare_iterations"
  /\ last_call.arg = <<IterationId("c1", 0), IterationId("c1", 1)>>
  /\ last_call.ret.new_documents # <<>>
  /\ last_call.ret.deleted_documents # <<>>
  /\ last_call.ret.modified_documents # <<>>

\* a validator that both the request and the parent fingerprint carry
Comparable(supplied, recorded) == supplied # NoHeader /\ recorded # NoHeader

\* the last should_crawl_url call: its iteration, its arguments and the
\* parent's fingerprints it read
AskedIteration == iterations[last_call.arg[1]]

AskedUrl == last_call.arg[2]

AskedEtag == last_call.arg[3]

AskedLastModified == last_call.arg[4]

ParentFingerprints ==
  FingerprintsOf(fingerprints, AskedIteration.parent_iteration_id)

IsShouldCrawl ==
  /\ last_call.op = "should_crawl_url"
  /\ last_call.arg[1] \in DOMAIN iterations

HasParentFingerprint ==
  /\ AskedIteration.mode = "incremental"
  /\ AskedUrl \in DOMAIN ParentFingerprints

\* C16 as the code has it: (true, NEW) in baseline and full modes and in
\* incremental mode when the parent holds no fingerprint of the URL.  With a
\* parent fingerprint the ETag decides when both ETags are present,
\* (false, UNCHANGED) if they are equal and (true, MODIFIED) if not; otherwise
\* Last-Modified decides in the same way when both values are present;
\* otherwise the answer is (true, MODIFIED).
C16_EtagDecidesFirst ==
  IsShouldCrawl =>
    IF ~HasParentFingerprint THEN last_call.ret = Answer(TRUE, "new")
    ELSE LET parent_fp == ParentFingerprints[AskedUrl]
         IN  IF Comparable(AskedEtag, parent_fp.etag)
               THEN last_call.ret
                      = IF AskedEtag = parent_fp.etag
                          THEN Answer(FALSE, "unchanged")
                          ELSE Answer(TRUE, "modified")
             ELSE IF Comparable(AskedLastModified, parent_fp.last_modified)
               THEN last_call.ret
                      = IF AskedLastModified = parent_fp.last_modified
                          THEN Answer(FALSE, "unchanged")
                          ELSE Answer(TRUE, "modified")
             ELSE last_call.ret = Answer(TRUE, "modified")

\* C16 as stated: (true, NEW) in baseline and full modes and in incremental
\* mode when the parent holds no fingerprint of the URL; with a parent
\* fingerprint (false, UNCHANGED) if the supplied ETag or Last-Modified
\* matches the parent's value, (true, MODIFIED) if it mismatches, and
\* (true, MODIFIED) if neither header can be compared.
C16_AnyMatchIsUnchanged ==
  IsShouldCrawl =>
    IF ~HasParentFingerprint THEN last_call.ret = Answer(TRUE, "new")
    ELSE LET parent_fp == ParentFingerprints[AskedUrl]
             etag_matches == /\ Comparable(AskedEtag, parent_fp.etag)
                             /\ AskedEtag = parent_fp.etag
             last_modified_matches ==
               /\ Comparable(AskedLastModified, parent_fp.last_modified)
               /\ AskedLastModified = parent_fp.last_modified
         IN  last_call.ret
               = IF etag_matches \/ last_modified_matches
                   THEN Answer(FALSE, "unchanged")
                   ELSE Answer(TRUE, "modified")

C16_Witness ==
  /\ IsShouldCrawl
  /\ HasParentFingerprint
  /\ ParentFingerprints[AskedUrl].etag = "e1"
  /\ ParentFingerprints[AskedUrl].last_modified = "m1"
  /\ AskedEtag = "e1"
  /\ AskedLastModified = "m2"
  /\ last_call.ret = Answer(FALSE, "unchanged")

\* compare(id, id) reports no change and lists exactly urls as unchanged
AllUnchanged(comparison, urls) ==
  /\ comparison.new_documents = <<>>
  /\ comparison.modified_documents = <<>>
  /\ comparison.deleted_documents = <<>>
  /\ Range(comparison.unchanged_documents) = urls
  /\ NoDuplicates(comparison.unchanged_documents)

\* a reload that directly follows the completion of an iteration
IsReloadAfterComplete ==
  /\ last_call.op = "complete_iteration"
  /\ last_call.ret = "None"
  /\ last_call'.op = "_load_iterations"

\* C17: after create_iteration, record of any documents, complete and a
\* reload from storage the iteration has the fingerprints it had before, and
\* compare(iter0, iter0) has empty new, modified and deleted lists and lists
\* every recorded URL as unchanged.
C17_RoundTripPreserves ==
  /\ [][IsReloadAfterComplete =>
          LET iteration_id == last_call.arg
              recorded == FingerprintsOf(fingerprints, iteration_id)
          IN  /\ iteration_id \in DOMAIN iterations'
              /\ FingerprintsOf(fingerprints', iteration_id) = recorded
              /\ AllUnchanged(compare_iterations(fingerprints', iteration_id,
                                                 iteration_id),
                              DOMAIN recorded)]_vars
  /\ [](  (/\ last_call.op = "compare_iterations"
           /\ last_call.arg[1] = last_call.arg[2])
            => AllUnchanged(last_call.ret,
                            DOMAIN FingerprintsOf(fingerprints, last_call.arg[1])))

C17_Witness ==
  /\ last_call.op = "compare_iterations"
  /\ last_call.arg = <<IterationId("c1", 0), IterationId("c1", 0)>>
  /\ Range(last_call.ret.unchanged_documents) = {"u1", "u2"}
  /\ IterationId("c1", 0) \in DOMAIN fingerprint_files
  /\ fingerprints[IterationId("c1", 0)]
       = ParseFingerprints(fingerprint_files[IterationId("c1", 0)])
  /\ fingerprints[IterationId("c1", 0)]["u1"].crawled_at
       < fingerprints[IterationId("c1", 0)]["u2"].crawled_at

\* a step of task t's publish call that invokes a callback with its event
Invokes(t) ==
  /\ publishing'[t].event = publishing[t].event
  /\ Len(publishing'[t].invoked) = Len(publishing[t].invoked) + 1

InvokedCallback(t) == publishing'[t].invoked[Len(publishing'[t].invoked)]

\* the step that enters _broadcast_to_websockets
BroadcastStarts(t) ==
  /\ publishing[t].pc = "broadcast"
  /\ publishing'[t].pc # "broadcast"

InHistory(event) ==
  /\ CrawlId \in DOMAIN histories
  /\ event \in Range(histories[CrawlId].events)

\* the subscribers of the call that have been registered since it began and
\* that it has not invoked
NotInvoked(frame) == frame.expected \ Range(frame.invoked)

\* C18: for every publish(event) the event is in the job's history before any
\* subscriber is invoked, every per-job subscriber of the job is invoked
\* before any global subscriber, and the broadcast to the job's websocket
\* connections starts only after all subscribers have been invoked.
C18_PublishOrder ==
  [][\A t \in PublishTasks :
       /\ Invokes(t) =>
            /\ InHistory(publishing[t].event)
            /\ InvokedCallback(t) \in GlobalCallbacks
                 => NotInvoked(publishing[t]) \cap JobCallbacks = {}
            /\ InvokedCallback(t) \in JobCallbacks
                 => Range(publishing[t].invoked) \cap GlobalCallbacks = {}
       /\ BroadcastStarts(t) => NotInvoked(publishing[t]) = {}
       /\ publishing[t].pc \in {"ws_loop", "ws_await", "ws_manager"}
            => ~Invokes(t)]_vars

\* C19: if a per-job or global subscriber callback fails during
\* publish(event), the event is still recorded in the history, every other
\* registered subscriber is still invoked for that event, and publish does
\* not raise to its caller.
C19_SubscriberFailureContained ==
  \A t \in PublishTasks :
    publishing[t].failed # {} =>
      /\ InHistory(publishing[t].event)
      /\ publishing[t].pc # "raised"
      /\ publishing[t].pc \in {"broadcast", "ws_loop", "ws_await", "ws_manager",
                               "returned"}
           => NotInvoked(publishing[t]) = {}

\* the last n elements of a sequence
LastN(seq, n) ==
  IF Len(seq) <= n THEN seq ELSE SubSeq(seq, Len(seq) - n + 1, Len(seq))

OfType(seq, event_type) ==
  SelectSeq(seq, LAMBDA event : event.event_type = event_type)

\* get_by_type without a limit
EventsByType(h, event_type) ==
  IF event_type \in DOMAIN h.events_by_type THEN h.events_by_type[event_type]
                                            ELSE <<>>

\* C20: the event history of a job never holds more than 1000 events and the
\* history of each event type never more than 100; until cleanup the history
\* is exactly the most recently published events of the job, and of each
\* type, in publish order.
C20_HistoryIsMostRecent ==
  \A crawl_id \in DOMAIN histories :
    LET h == histories[crawl_id]
    IN  /\ Len(h.events) <= 1000
        /\ h.events = LastN(published, 1000)
        /\ \A event_type \in EventTypes :
             /\ Len(EventsByType(h, event_type)) <= 100
             /\ EventsByType(h, event_type)
                  = LastN(OfType(published, event_type), 100)
        /\ DOMAIN h.events_by_type \subseteq EventTypes

C20_Witness ==
  /\ CrawlId \in DOMAIN histories
  /\ Len(published) = MaxEvents + 1
  /\ Len(histories[CrawlId].events) = MaxEvents
  /\ histories[CrawlId].events[MaxEvents].event_id = 2
  /\ histories[CrawlId].events[1] = published[2]
  /\ Len(OfType(published, "state_change")) > MaxEventsByType
  /\ Len(EventsByType(histories[CrawlId], "state_change")) = MaxEventsByType

\* the durations of the records that carry one, added up
RECURSIVE SumDurations(_)
SumDurations(records) ==
  IF records = <<>> THEN 0
  ELSE LET d == records[Len(records)].duration_seconds
       IN  SumDurations(SubSeq(records, 1, Len(records) - 1))
             + (IF d = None THEN 0 ELSE d)

StartedFromQueued ==
  /\ Len(history) > 0
  /\ history[1].from_state = "queued"
  /\ history[1].to_state = "initializing"

\* C28: once a job that was started from QUEUED is in a terminal state, the
\* durations recorded in its state_history add up to completed_at - started_at.
C28_DurationsSumToRunTime ==
  (StartedFromQueued /\ is_terminal_state(state_data))
    => /\ state_data.started_at # None
       /\ state_data.completed_at # None
       /\ SumDurations(history)
            = state_data.completed_at - state_data.started_at

C28_Witness ==
  /\ StartedFromQueued
  /\ is_terminal_state(state_data)
  /\ Len(history) >= 3
  /\ state_data.started_at > state_data.created_at
  /\ state_data.completed_at > state_data.started_at
  /\ SumDurations(history) = state_data.completed_at - state_data.started_at

\* C29: every record of state_history carries a duration: the first one its
\* timestamp minus the job's creation time, every later one its timestamp
\* minus the timestamp of the record before it.
C29_EveryRecordHasDuration ==
  \A i \in DOMAIN history :
    /\ history[i].duration_seconds # None
    /\ history[i].duration_seconds
         = history[i].timestamp
             - (IF i = 1 THEN state_data.created_at
                         ELSE history[i - 1].timestamp)

C26_PruneKeepsNewest ==
  [][last_call'.op = "delete_old_checkpoints"
       => LET N == last_call'.arg
              k == Len(checkpoints)
              kept == Range(checkpoints')
          IN  /\ Len(checkpoints') = Min(N, k)
              /\ kept \subseteq Range(checkpoints)
              /\ \A old \in Range(checkpoints) \ kept, new \in kept :
                   old.checkpoint_number < new.checkpoint_number
              /\ last_call'.ret = k - Min(N, k)]_vars

ProgressPhases == {"urls", "documents", "extractions", "processing"}

\* C27: in every reachable state of a job each of the four phase-progress
\* records satisfies completed + failed <= total, from all zeros at
\* create_crawl on and through the synthetic loops of the crawling phase.
C27_ProgressWithinTotal ==
  /\ \A phase \in ProgressPhases :
       LET p == state_data.progress[phase]
       IN  /\ p.completed >= 0 /\ p.failed >= 0
           /\ p.completed + p.failed <= p.total
  /\ (job = "present" /\ task = "none" /\ history = <<>>)
       => \A phase \in ProgressPhases :
            state_data.progress[phase] = [total |-> 0, completed |-> 0, failed |-> 0]

C27_Witness ==
  /\ state_data.current_state = "paused"
  /\ state_data.progress.urls.total = SyntheticUrlTotal
  /\ state_data.progress.urls.completed > 0
  /\ state_data.progress.urls.completed < SyntheticUrlTotal

\* the (from_state, to_state) pairs of a sequence of transition records or of
\* state_change events
Pairs(records) ==
  [i \in DOMAIN records |-> <<records[i].from_state, records[i].to_state>>]

EventData(events) == [i \in DOMAIN events |-> events[i].data]

\* C21: every transition accepted through the manager has published exactly
\* one state_change event with the transition's from_state and to_state, and
\* the state_change events of the job are in its event history in the order
\* of the records of state_history.
C21_TransitionsPublished ==
  job # "absent" =>
    LET changes == IF CrawlId \in DOMAIN histories
                   THEN OfType(histories[CrawlId].events, "state_change")
                   ELSE <<>>
    IN  /\ Pairs(EventData(changes)) = Pairs(history)
        /\ Pairs(EventData(OfType(published, "state_change"))) = Pairs(history)
        /\ IF CrawlId \in DOMAIN histories
           THEN EventsByType(histories[CrawlId], "state_change") = changes
           ELSE history = <<>>

C21_Witness ==
  /\ CrawlId \in DOMAIN histories
  /\ Len(history) >= 4
  /\ \E i \in DOMAIN history : history[i].to_state = "paused"
  /\ \E i \in DOMAIN history : history[i].from_state = "paused"
  /\ Len(histories[CrawlId].events) > Len(history)
  /\ Pairs(EventData(OfType(histories[CrawlId].events, "state_change")))
       = Pairs(history)


\* what _preflight_validate finds when it asks the server about the URL
ServerAccepts(s, url) ==
  LET head == Server(s, url, "HEAD")
      final == IF head.status \in {401, 403, 405} THEN Server(s, url, "GET")
               ELSE head
  IN  final.status \in {200, 206}

\* the file candidates of the host that pass the robots, preflight and
\* taxonomy checks of a call that loaded an empty cache
Passing(r, host) ==
  {url \in r.file_candidates :
     /\ url.host = host
     /\ ~(/\ should_respect(host)
          /\ host \in DOMAIN r.robots_by_host
          /\ ~allows(r.robots_by_host[host], url))
     /\ ServerAccepts(site, url)
     /\ _document_type_from_context(url, DictGet(r.link_sources, url, NoUrl))
          \notin r.config.exclude_document_types}

RECURSIVE CappedSum(_, _)
CappedSum(r, hosts) ==
  IF hosts = {} THEN 0
  ELSE LET host == CHOOSE h \in hosts : TRUE
       IN  Min(per_domain_limit(r.config), Cardinality(Passing(r, host)))
             + CappedSum(r, hosts \ {host})

DocumentsOf(r, host) == {d \in r.documents : d.url.host = host}

\* C22: discover_documents returns at most max_documents candidates and at
\* most the per-domain cap from any one host, and the number it returns is
\* the smaller of max_documents and the sum over the hosts of min(cap,
\* number of the host's candidates that pass the robots, preflight and
\* taxonomy checks); checked_urls is at least the number returned.
C22_ReturnedCount ==
  LET r == results["j1"]
  IN  r.status = "returned"
        => /\ Cardinality(r.documents) <= r.config.max_documents
           /\ \A host \in Hosts :
                Cardinality(DocumentsOf(r, host)) <= per_domain_limit(r.config)
           /\ Cardinality(r.documents)
                = Min(r.config.max_documents, CappedSum(r, Hosts))
           /\ r.checked_urls >= Cardinality(r.documents)

\* more candidates pass than max_documents, the cap of one per host limits
\* both hosts, and exactly max_documents = 2 are returned
C22_Witness ==
  LET r == results["j1"]
  IN  /\ r.status = "returned"
      /\ r.config.max_documents = 2
      /\ r.config.max_documents_per_domain = 1
      /\ Cardinality(r.file_candidates) >= 4
      /\ \E host \in Hosts : Cardinality(Passing(r, host)) >= 2
      /\ Cardinality(r.documents) = 2
      /\ r.skipped_urls >= 1
      /\ r.checked_urls >= 2

\* the second call of SpecCache, running or returned
SecondCall ==
  IF results["j2"].status = "returned" THEN results["j2"] ELSE discovering["j2"]

\* the URLs whose preflight validation passed in the first call, which asked
\* the server about them
PassedInFirstCall ==
  {url \in results["j1"].requested :
     results["j1"].cache[url].status \in {200, 206}}

\* C24: a URL whose preflight validation passed in one call is not requested
\* again by a second call that validates it less than CACHE_TTL_SECONDS
\* later, the cache file being what the first call saved: the second call
\* accepts it from the cache.
C24_CachedNotRequestedAgain ==
  results["j1"].status = "returned"
    => \A url \in PassedInFirstCall :
         (/\ url \in DOMAIN SecondCall.preflight_at
          /\ SecondCall.preflight_at[url] - results["j1"].cache[url].timestamp
               < CACHE_TTL_SECONDS)
           => /\ url \notin SecondCall.requested
              /\ url \in SecondCall.accepted_from_cache

\* the second call has returned; it accepted from the cache a URL that the
\* first call validated almost CACHE_TTL_SECONDS earlier
C24_Witness ==
  /\ results["j1"].status = "returned"
  /\ results["j2"].status = "returned"
  /\ \E url \in PassedInFirstCall :
       /\ url \in results["j2"].accepted_from_cache
       /\ url \notin results["j2"].requested
       /\ results["j2"].preflight_at[url] - results["j1"].cache[url].timestamp
            >= CACHE_TTL_SECONDS - TtlMargin

\* the delay of the host: the larger of the crawl_delay of its profile and
\* the Crawl-delay of its robots.txt
HostDelay(host) ==
  LET configured == DEFAULT_DOMAIN_PROFILES(host).crawl_delay
      advertised == IF host = site.host
                    THEN _parse_robots_txt(RobotsTxt(site)).crawl_delay
                    ELSE None
  IN  Max(Max(configured, advertised), 0)

\* C23: two consecutive requests to the same host are at least the host's
\* delay apart, whichever jobs send them.
C23_RequestsDelayApart ==
  [][\A host \in Hosts :
       (sent'[host].n # sent[host].n /\ sent[host].n > 0)
         => sent'[host].at - sent[host].at >= HostDelay(host)]_vars

\* C25: for the same site and the same loaded cache, a call with a larger
\* max_documents and otherwise the same configuration never returns fewer
\* candidates than a call with a smaller max_documents.
C25_MonotoneInMaxDocuments ==
  \A j, k \in JobIds :
    (/\ results[j].status = "returned"
     /\ results[k].status = "returned"
     /\ results[j].cache_loaded = results[k].cache_loaded
     /\ results[j].config.max_documents_per_domain
          = results[k].config.max_documents_per_domain
     /\ results[j].config.exclude_document_types
          = results[k].config.exclude_document_types
     /\ results[j].config.max_documents <= results[k].config.max_documents)
      => Cardinality(results[j].documents) <= Cardinality(results[k].documents)

\* C31: set_substate(s) raises and leaves current_substate as it was whenever
\* s is not a substate declared for the current main state; in the states
\* that declare none (queued, initializing, paused, completed, failed,
\* cancelled) every set_substate call is rejected.
C31_UndeclaredSubstateRejected ==
  [][(/\ last_call'.op = "set_substate"
      /\ \/ state_data.current_state \notin {"crawling", "extracting", "processing"}
         \/ last_call'.arg \notin Range(STATE_SUBSTATES[state_data.current_state]))
       => /\ last_call'.ret = "raised"
          /\ state_data' = state_data]_vars

\* a substate of the extracting phase has been refused to a crawling job
\* that has a substate of its own
C31_Witness ==
  /\ last_call.op = "set_substate"
  /\ last_call.ret = "raised"
  /\ last_call.arg \in Range(STATE_SUBSTATES["extracting"])
  /\ state_data.current_state = "crawling"
  /\ state_data.current_substate \in Range(STATE_SUBSTATES["crawling"])

\* C34: in every reachable state of a job, current_substate is unset or one
\* of the substates declared for the current main state.
C34_SubstateOfCurrentState ==
  \/ state_data.current_substate = NoSubstate
  \/ /\ state_data.current_state \in DOMAIN STATE_SUBSTATES
     /\ state_data.current_substate
          \in Range(STATE_SUBSTATES[state_data.current_state])

\* the validation results a returned call obtained itself: the entries of its
\* dict that were not in the file it loaded
Obtained(j) ==
  {url \in DOMAIN results[j].cache :
     \/ url \notin DOMAIN results[j].cache_loaded
     \/ results[j].cache_loaded[url] # results[j].cache[url]}

BothReturned == \A j \in JobIds : results[j].status = "returned"

\* C38: when both runs of discover_documents have finished, the URL validation
\* cache file holds an entry for every URL that either run validated.
C38_NoEntryLost ==
  BothReturned => \A j \in JobIds : \A url \in Obtained(j) : url \in DOMAIN url_cache_file

(***************************************************************************)
(* _preflight_validate on its own: one URL, the answers of its server to   *)
(* HEAD and to the ranged GET, and calls at different times                 *)
(***************************************************************************)
\* status None stands for an httpx.HTTPError raised by the request
PreflightStatuses == {200, 204, 206, 304, 403, 404, 500, None}

PreflightContentTypes == {"pdf", "text"}

PreflightUrls == {Url(PlainHost, <<"wp-content", "uploads", "d1.pdf">>, "pdf", {}),
                  Url(PlainHost, <<"syllabus-downloads">>, "", {"syllabus"})}

\* the GET is sent only after a HEAD answered 401, 403 or 405
PreflightSites ==
  {s \in [host : {PlainHost}, url : PreflightUrls,
          head : [status : PreflightStatuses, content_type : PreflightContentTypes],
          get : [status : {200, 204, 206, 404}, content_type : PreflightContentTypes]] :
     s.head.status \notin {401, 403, 405} => s.get = Response(200, "pdf")}

\* _preflight_validate, lines 516-555: what it returns ("meta" for the dict of
\* the entry, "None" otherwise) and the cache it leaves
_preflight_validate(cache, url, head, get, t) ==
  IF url \in DOMAIN cache /\ _cache_fresh(cache[url], t)
  THEN [ret |-> IF cache[url].status >= 400 THEN "None"
                ELSE IF ~_matches_file_types(url, cache[url].content_type, FileTypes)
                THEN "None"
                ELSE "meta",
        cache |-> cache]
  ELSE IF head.status = None THEN [ret |-> "None", cache |-> cache]
  ELSE LET response == IF head.status \in {401, 403, 405} THEN get ELSE head
           written == Put(cache, url, CacheEntry(url, response, t))
       IN  IF response.status = None THEN [ret |-> "None", cache |-> cache]
           ELSE [ret |-> IF response.status \notin {200, 206} THEN "None"
                         ELSE IF ~_matches_file_types(url, response.content_type, FileTypes)
                         THEN "None"
                         ELSE "meta",
                 cache |-> written]

\* a call of _preflight_validate for the URL of the site
preflight_call ==
  LET out == _preflight_validate(url_cache_file, site.url, site.head, site.get, time)
  IN  /\ url_cache_file' = out.cache
      /\ last_call' = Call("_preflight_validate", site.url, out.ret)
      /\ UNCHANGED <<site, time, sent, discovering, results, state_data, clock,
                     managerVars, checkpointVars, iterationVars, eventVars>>

InitPreflight ==
  /\ InitCore
  /\ InitBus
  /\ site \in PreflightSites
  /\ time = 1
  /\ url_cache_file = <<>>
  /\ sent = [host \in Hosts |-> [n |-> 0, at |-> None]]
  /\ discovering = [j \in JobIds |-> IdleCall]
  /\ results = [j \in JobIds |-> NoResult]

NextPreflight == preflight_call \/ Elapse

SpecPreflight == InitPreflight /\ [][NextPreflight]_vars

\* the call is answered from a fresh entry of the cache
AnsweredFromCache ==
  /\ last_call'.op = "_preflight_validate"
  /\ site.url \in DOMAIN url_cache_file
  /\ _cache_fresh(url_cache_file[site.url], time)

\* C39: a call of _preflight_validate answered from a fresh cache entry returns
\* the same verdict as the call before it for that URL, hence as the cache miss
\* that wrote the entry.
C39_CacheHitSameVerdict ==
  [][(AnsweredFromCache /\ last_call.op = "_preflight_validate")
       => last_call'.ret = last_call.ret]_vars

\* C37: publish never raises: a websocket added to or removed from the set of
\* the job while publish is suspended in send_text does not end the call of
\* publish with an exception.
C37_PublishNeverRaises ==
  \A t \in PublishTasks : publishing[t].pc # "raised"

\* the place of a main state in the order of the phases (0 for the others)
PhaseRank(s) ==
  CASE s = "initializing" -> 1
    [] s = "crawling" -> 2
    [] s = "extracting" -> 3
    [] s = "processing" -> 4
    [] s = "completed" -> 5
    [] OTHER -> 0

\* C40: along state_history the phases are entered in the order INITIALIZING,
\* CRAWLING, EXTRACTING, PROCESSING, COMPLETED: a record never enters a phase
\* earlier than one entered before it, and a phase is entered only after the
\* phase before it was entered, so a COMPLETED job has been through all four.
C40_PhasesInOrder ==
  LET h == state_data.state_history
      entered == {k \in DOMAIN h : PhaseRank(h[k].to_state) > 0}
  IN  /\ \A k1, k2 \in entered :
           k1 < k2 => PhaseRank(h[k1].to_state) <= PhaseRank(h[k2].to_state)
      /\ \A k \in entered :
           PhaseRank(h[k].to_state) > 1
             => \E k0 \in entered :
                  /\ k0 < k
                  /\ PhaseRank(h[k0].to_state) = PhaseRank(h[k].to_state) - 1

\* a COMPLETED job that was paused and resumed on its way
C40_Witness ==
  /\ state_data.current_state = "completed"
  /\ \E k \in DOMAIN state_data.state_history :
       /\ state_data.state_history[k].from_state = "paused"
       /\ k > 1
       /\ state_data.state_history[k - 1].from_state = state_data.state_history[k].to_state

\* C33: a job with an error recorded (error_message set or error_count > 0)
\* is FAILED.
C33_ErrorOnlyWhenFailed ==
  (state_data.error_message # "None" \/ state_data.error_count > 0)
    => state_data.current_state = "failed"

\* no operation of the manager on the job is in progress: the save task of
\* create_crawl has run, no pause, resume or cancel call is suspended, and
\* execute_crawl has not started or has ended
NoOperationInProgress ==
  /\ job = "present"
  /\ ~create_save_pending
  /\ InFlight = 0
  /\ task \in {"none", "done", "raised", "cancelled"}

\* C36: when no manager operation on the job is in progress, the stored
\* record of the job shows the current_state of the job in memory.
C36_StoredStateIsCurrent ==
  NoOperationInProgress => job_store.current_state = state_data.current_state

(***************************************************************************)
(* Restart: the process ends and a new one loads the jobs from storage     *)
(***************************************************************************)
\* _reconstruct_state_data: state, progress, started_at, completed_at and the
\* error fields are taken from the record; current_substate, created_at,
\* paused_at and state_history keep the defaults of a new CrawlStateData
_reconstruct_state_data(job_data, now) ==
  [CrawlStateData(now) EXCEPT
     !.current_state = job_data.current_state,
     !.progress = [urls |-> job_data.progress.urls,
                   documents |-> [job_data.progress.documents EXCEPT !.failed = 0],
                   extractions |-> [job_data.progress.extractions EXCEPT !.failed = 0],
                   processing |-> [job_data.progress.processing EXCEPT !.failed = 0]],
     !.started_at = job_data.started_at,
     !.completed_at = job_data.completed_at,
     !.error_message = job_data.error_message,
     !.error_count = job_data.error_count]

\* load_jobs_from_storage in a new process: every task and every suspended
\* call of the old process is gone, the job is rebuilt from its record with
\* the pause gate open and the cancel flag down.  pause_from and npauses
\* are bookkeeping of the model and stay.
load_jobs_from_storage ==
  /\ job = "present"
  /\ job_store # NoRecord
  /\ state_data' = _reconstruct_state_data(job_store, clock)
  /\ pause_flag' = TRUE
  /\ cancel_flag' = FALSE
  /\ create_save_pending' = FALSE
  /\ task' = "none"
  /\ pc' = 0
  /\ loop_i' = 0
  /\ discovered' = 0
  /\ inflight' = [op \in ApiOps |-> 0]
  /\ exc_in_phase' = FALSE
  /\ last_call' = Call("load_jobs_from_storage", "", "restored")
  /\ UNCHANGED <<utilityVars, job, job_store, clock, checkpoints,
                 checkpoint_files, pause_from, npauses>>

\* the process is restarted while the stored job is PAUSED and no call is
\* under way
NextRestart ==
  \/ create_crawl
  \/ CreateSaveTask
  \/ execute_crawl
  \/ ExecStep
  \/ pause_crawl
  \/ pause_crawl_return
  \/ resume_crawl
  \/ resume_crawl_return
  \/ /\ job_store.current_state = "paused"
     /\ InFlight = 0
     /\ load_jobs_from_storage

SpecRestart == Init /\ [][NextRestart]_vars

\* resume_crawl is accepted for a job that was reloaded as PAUSED and had
\* been paused from EXTRACTING or PROCESSING
ResumeAfterReload ==
  /\ last_call'.op = "resume"
  /\ last_call'.ret = "pending"
  /\ state_data.current_state = "paused"
  /\ state_data.state_history = <<>>
  /\ job_store.current_state = "paused"
  /\ pause_from \in {"extracting", "processing"}

\* C35: resume_crawl puts a job that was paused in EXTRACTING or PROCESSING,
\* saved and reloaded from storage back into the phase it was paused from.
C35_ReloadedResumeRestores ==
  [][ResumeAfterReload => state_data'.current_state = pause_from]_vars

(***************************************************************************)
(* Liveness: the job is executed, paused and resumed, never cancelled or   *)
(* deleted, and no publish raises.  The event loop runs every task and     *)
(* every suspended call that can run, and resume_crawl is called whenever  *)
(* the job is PAUSED again and again.                                      *)
(***************************************************************************)
NextLive ==
  \/ create_crawl
  \/ CreateSaveTask
  \/ execute_crawl
  \/ ExecStep
  \/ pause_crawl
  \/ pause_crawl_return
  \/ resume_crawl
  \/ resume_crawl_return

SpecLive ==
  /\ Init
  /\ [][NextLive]_vars
  /\ WF_vars(ExecStep) /\ WF_vars(execute_crawl) /\ WF_vars(CreateSaveTask)
  /\ WF_vars(pause_crawl_return) /\ WF_vars(resume_crawl_return)
  /\ SF_vars(resume_crawl)

\* C32: a job whose execution has started, with every accepted pause followed
\* by a resume, eventually is COMPLETED.
C32_EventuallyCompleted ==
  (task = "ready" /\ pc = 1) ~> (state_data.current_state = "completed")

=============================================================================
